---- MODULE Spec2Model ----
(***************************************************************************)
(* Persistent state layer of Omni Core: the transaction metadata index     *)
(* (CMPTxList, persistence.cpp lines 712-1265) and the file based          *)
(* checkpoint store (persistence.cpp lines 46-675).                        *)
(***************************************************************************)
EXTENDS Integers, Sequences, FiniteSets, TLC

(***************************************************************************)
(* Bounds of the model.                                                    *)
(***************************************************************************)
MaxOps == 3

\* transaction ids (uint256), in the byte order of their serialization
Txids == {1, 2, 3}
\* block heights passed as nBlock
Heights == {1, 2}
\* uint256{}: the null transaction id
NullTxid == 0
\* uint8_t valid of the keys: 0 or 1
Validity == {0, 1}
TxTypes == {0}
TxValues == {1}

VARIABLES
    db,          \* the rows of the transaction index: encoded key |-> value
    nOps,        \* number of operations applied to the index so far
    lastDelete,  \* the last deleteTransactions call, with the rows before it
    snap,        \* the rows as they were when block snap.h was finished
    calls,       \* the sub-record calls made so far, as their callers made them
    mem,         \* the in-memory tables the checkpoint store saves and restores
    files,       \* the directory of the state files: file name |-> file
    watermark,   \* the watermark of the property database
    ret,         \* what the last LoadMostRelevantInMemoryState came to
    nMemOps,     \* number of changes made to the in-memory tables so far
    track,       \* the last checkpoint and what happened to its files since
    pc,          \* where a PersistInMemoryState that is under way stands
    nft,         \* the store of token ranges: rows, undo cache, undo entries
    nftBlock,    \* the height of the block being processed
    nNftOps,     \* number of operations applied to the ranges so far
    nftSnap,     \* height |-> the rows as they were when it was finalized
    nftLast,     \* the last operation on the ranges, with the store before it
    probe        \* the last call looked at on its own: arguments and outcome

txvars == <<db, nOps, lastDelete, snap, calls>>
ckvars == <<mem, files, watermark, ret, nMemOps, track, pc>>
nftvars == <<nft, nftBlock, nNftOps, nftSnap, nftLast>>

NoProbe == [op |-> "none"]

(***************************************************************************)
(* Keys.  A key is the schema prefix followed by the fields in the order   *)
(* in which SERIALIZE_METHODS writes them.                                 *)
(***************************************************************************)
CBlockTxKey(block, txid) == <<"b", block, txid>>
CTxKey(txid, block, valid, type) == <<"t", txid, block, valid, type>>
CPaymentTxKey(txid, payments, block, valid) == <<"p", txid, payments, block, valid>>
CDexCancelTxKey(txid, affected, block, valid) == <<"c", txid, affected, block, valid>>
CSendAllTxKey(txid, num) == <<"s", txid, num>>
CDexTxToCancelKey(txid) == <<"e", txid>>
CNonFugibleKey(txid) == <<"n", txid>>

EmptyDb == [k \in {} |-> <<>>]

\* CDBBase::Write: put one row, replacing the row of the same key
Write(d, key, value) ==
    [k \in (DOMAIN d) \cup {key} |-> IF k = key THEN value ELSE d[k]]

\* CDBBase::WriteBatch of a batch of deletions
WriteBatch(d, batch) == [k \in (DOMAIN d) \ batch |-> d[k]]

\* the rows a CDBaseIterator seeked to PartialKey<T>(txid) visits
PartialKey(d, prefix, txid) == {k \in DOMAIN d : k[1] = prefix /\ k[2] = txid}

\* the rows a CDBaseIterator seeked to a key of schema T visits: schema T only
SchemaKeys(d, prefix) == {k \in DOMAIN d : k[1] = prefix}

\* the least element of a non-empty set of integers
Min(S) == CHOOSE x \in S : \A y \in S : x <= y

(***************************************************************************)
(* The bytes of the keys.  db holds the keys as tuples; these operators    *)
(* give the byte string the store orders them by: the prefix byte of the   *)
(* schema, then the fields as SERIALIZE_METHODS lists them.                *)
(***************************************************************************)
\* the width of a uint256 in bytes
Uint256Width == 32

\* the prefix bytes 'b', 't', 'p', 'c', 's', 'e'
PrefixByte(prefix) ==
    CASE prefix = "b" -> 98 [] prefix = "t" -> 116 [] prefix = "p" -> 112
      [] prefix = "c" -> 99 [] prefix = "s" -> 115 [] prefix = "e" -> 101

\* a uint256 is written as its 32 bytes, the least significant first
Uint256Bytes(txid) ==
    [i \in 1..Uint256Width |->
        IF i = 1 THEN txid % 256 ELSE IF i = 2 THEN (txid \div 256) % 256 ELSE 0]

\* as BigEndian32Inv, but without the inversion of the bits
BigEndian32(n) ==
    <<(n \div 16777216) % 256, (n \div 65536) % 256, (n \div 256) % 256, n % 256>>

\* the four bytes of ~n, the most significant first
BigEndian32Inv(n) ==
    <<255 - ((n \div 16777216) % 256), 255 - ((n \div 65536) % 256),
      255 - ((n \div 256) % 256), 255 - (n % 256)>>

\* Varint and VarintSigned of a value from 0 to 127: one byte
Varint(n) == <<n>>

EncodeKey(k) ==
    CASE k[1] = "b" -> <<PrefixByte("b")>> \o BigEndian32Inv(k[2]) \o Uint256Bytes(k[3])
      [] k[1] = "t" -> <<PrefixByte("t")>> \o Uint256Bytes(k[2]) \o Varint(k[3])
                           \o <<k[4]>> \o Varint(k[5])
      [] k[1] \in {"p", "c"} -> <<PrefixByte(k[1])>> \o Uint256Bytes(k[2])
                           \o BigEndian32Inv(k[3]) \o Varint(k[4]) \o <<k[5]>>
      [] k[1] = "s" -> <<PrefixByte("s")>> \o Uint256Bytes(k[2]) \o BigEndian32Inv(k[3])
      [] k[1] = "e" -> <<PrefixByte("e")>> \o Uint256Bytes(k[2])

\* the order of the store: byte by byte, a proper prefix first
RECURSIVE BytesBefore(_, _, _)
BytesBefore(a, b, i) ==
    IF i > Len(a) THEN i <= Len(b)
    ELSE IF i > Len(b) THEN FALSE
    ELSE IF a[i] # b[i] THEN a[i] < b[i]
    ELSE BytesBefore(a, b, i + 1)

\* the bytes of PartialKey<T>(txid): the prefix byte and the txid
PartialKeyBytes(prefix, txid) == <<PrefixByte(prefix)>> \o Uint256Bytes(txid)

\* as StartsWith, but only the prefix byte is compared
StartsWithTag(bytes, partial) == bytes[1] = partial[1]

\* the iterator is valid while the key it stands on starts with the partial
\* key it was made with
StartsWith(bytes, partial) ==
    /\ Len(bytes) >= Len(partial)
    /\ SubSeq(bytes, 1, Len(partial)) = partial

\* the first of a non-empty set of byte strings in the order of the store
FirstKey(keys) ==
    CHOOSE k \in keys : \A o \in keys : k = o \/ BytesBefore(k, o, 1)

\* the keys the iterator stands on, from the first of `keys` on, until it
\* is no longer valid
RECURSIVE Visited(_, _)
Visited(keys, partial) ==
    IF keys = {} THEN {}
    ELSE IF ~StartsWith(FirstKey(keys), partial) THEN {}
    ELSE {FirstKey(keys)} \cup Visited(keys \ {FirstKey(keys)}, partial)

\* the keys, as bytes, met by an iterator made with PartialKey<T>(txid): it
\* seeks to the first key that is not before the partial key
VisitedRows(d, prefix, txid) ==
    Visited({bytes \in {EncodeKey(k) : k \in DOMAIN d} :
                ~BytesBefore(bytes, PartialKeyBytes(prefix, txid), 1)},
            PartialKeyBytes(prefix, txid))

(***************************************************************************)
(* Recording.                                                              *)
(***************************************************************************)
\* the first row under PartialKey<T>(txid): sequence numbers are stored
\* bit-inverted (BigEndian32Inv), so it carries the highest one; 0 if none
FirstSeq(d, prefix, txid) ==
    LET rows == PartialKey(d, prefix, txid)
    IN  IF rows = {} THEN 0
        ELSE CHOOSE n \in {k[3] : k \in rows} : \A k \in rows : k[3] <= n

\* as recordTX, but a record found with the same key and value is dropped
recordTXDropsDuplicate(d, txid, fValid, nBlock, type, nValue) ==
    IF /\ CTxKey(txid, nBlock, fValid, type) \in DOMAIN d
       /\ d[CTxKey(txid, nBlock, fValid, type)] = nValue
    THEN [k \in DOMAIN d \ {CTxKey(txid, nBlock, fValid, type)} |-> d[k]]
    ELSE Write(Write(d, CBlockTxKey(nBlock, txid), ""),
               CTxKey(txid, nBlock, fValid, type), nValue)

\* the overwrite detection of lines 765-771 only writes to the log
recordTX(d, txid, fValid, nBlock, type, nValue) ==
    LET d1 == Write(d, CBlockTxKey(nBlock, txid), "")
    IN  Write(d1, CTxKey(txid, nBlock, fValid, type), nValue)

recordPaymentTX(d, txid, fValid, nBlock, vout, propertyId, nValue, buyer, seller) ==
    LET numberOfPayments == FirstSeq(d, "p", txid) + 1
        d1 == Write(d, CBlockTxKey(nBlock, txid), "")
    IN  Write(d1, CPaymentTxKey(txid, numberOfPayments, nBlock, fValid),
              <<vout, buyer, seller, propertyId, nValue>>)

\* as recordMetaDExCancelTX, but the link of a txid cancelled before stays
recordMetaDExCancelKeepLink(d, txid, txidSub, fValid, nBlock, propertyId, nValue) ==
    Write(Write(Write(d, CBlockTxKey(nBlock, txid), ""),
                CDexTxToCancelKey(txidSub),
                IF CDexTxToCancelKey(txidSub) \in DOMAIN d
                THEN d[CDexTxToCancelKey(txidSub)] ELSE txid),
          CDexCancelTxKey(txid, FirstSeq(d, "c", txid) + 1, nBlock, fValid),
          <<propertyId, nValue>>)

recordMetaDExCancelTX(d, txid, txidSub, fValid, nBlock, propertyId, nValue) ==
    LET numerOfAffected == FirstSeq(d, "c", txid) + 1
        d1 == Write(d, CBlockTxKey(nBlock, txid), "")
        d2 == Write(d1, CDexTxToCancelKey(txidSub), txid)
    IN  Write(d2, CDexCancelTxKey(txid, numerOfAffected, nBlock, fValid),
              <<propertyId, nValue>>)

\* as recordSendAllSubRecord, but the number is the one after the highest
\* of the txid
recordSendAllNext(d, txid, nBlock, subRecordNumber, propertyId, nValue) ==
    Write(Write(d, CSendAllTxKey(txid, FirstSeq(d, "s", txid) + 1),
                <<propertyId, nValue>>),
          CBlockTxKey(nBlock, txid), "")

recordSendAllSubRecord(d, txid, nBlock, subRecordNumber, propertyId, nValue) ==
    LET d1 == Write(d, CSendAllTxKey(txid, subRecordNumber), <<propertyId, nValue>>)
    IN  Write(d1, CBlockTxKey(nBlock, txid), "")

(***************************************************************************)
(* Queries.                                                                *)
(***************************************************************************)
\* the order of the block-index rows: the block is stored bit-inverted
\* (BigEndian32Inv), so a higher block comes first; then the txid
BlockKeyBefore(k, o) == k[2] > o[2] \/ (k[2] = o[2] /\ k[3] < o[3])

FirstBlockKey(rows) ==
    CHOOSE k \in rows : \A o \in rows : k = o \/ BlockKeyBefore(k, o)

\* one turn of the loop with the row the iterator stands on: the loop is
\* left at the first row of a block below blockFirst
RECURSIVE ScanBlockRange(_, _, _)
ScanBlockRow(rows, key, blockFirst, retTxs) ==
    IF key[2] < blockFirst THEN retTxs
    ELSE ScanBlockRange(rows \ {key}, blockFirst, retTxs \cup {key[3]})

\* the loop over the rows from the iterator's position on
ScanBlockRange(rows, blockFirst, retTxs) ==
    IF rows = {} THEN retTxs
    ELSE ScanBlockRow(rows, FirstBlockKey(rows), blockFirst, retTxs)

\* as BlockRowsAt, but the rows of the key's own block are passed over
BlockRowsBelow(d, key) == {k \in SchemaKeys(d, "b") : k[2] < key[2]}

\* the block-index rows at and after the key the iterator is seeked to
BlockRowsAt(d, key) == {k \in SchemaKeys(d, "b") : ~BlockKeyBefore(k, key)}

\* the set retTxs after the call; the call returns its size
GetOmniTxsInBlockRange(d, blockFirst, blockLast, retTxs) ==
    ScanBlockRange(BlockRowsAt(d, CBlockTxKey(blockLast, NullTxid)), blockFirst,
                   retTxs)

findMetaDExCancel(d, txid) ==
    IF CDexTxToCancelKey(txid) \in DOMAIN d THEN d[CDexTxToCancelKey(txid)]
    ELSE NullTxid

\* Read of the key with txid and subSend, which leaves block and valid at
\* their initializers 0 and 0; propertyId and amount are the caller's
\* variables, assigned only when the row is read
getMetaDExCancelDetails(d, txid, subSend, propertyId, amount) ==
    IF CDexCancelTxKey(txid, subSend, 0, 0) \in DOMAIN d
    THEN [ok |-> TRUE, propertyId |-> d[CDexCancelTxKey(txid, subSend, 0, 0)][1],
          amount |-> d[CDexCancelTxKey(txid, subSend, 0, 0)][2]]
    ELSE [ok |-> FALSE, propertyId |-> propertyId, amount |-> amount]

\* a lookup that asks for the send-all sub-records first
getNumberOfSubRecordsSendAllFirst(d, txid) ==
    IF PartialKey(d, "s", txid) # {} THEN FirstSeq(d, "s", txid)
    ELSE FirstSeq(d, "p", txid)

\* the payments of the first payment row of the txid, else the num of its
\* first send-all row, else 0
getNumberOfSubRecords(d, txid) ==
    IF PartialKey(d, "p", txid) # {} THEN FirstSeq(d, "p", txid)
    ELSE FirstSeq(d, "s", txid)

\* the payment rows of the txid the loop of getPurchaseDetails does not skip
PaymentRows(d, txid, purchaseNumber) ==
    {k \in PartialKey(d, "p", txid) : k[3] = purchaseNumber}

\* the first of the rows in key order: block, then valid
FirstPaymentRow(rows) ==
    CHOOSE k \in rows : \A o \in rows :
        k[4] < o[4] \/ (k[4] = o[4] /\ k[5] <= o[5])

PurchaseDetails(ok, value) == [ok |-> ok, value |-> value]

\* as getPurchaseDetails, but the first payment row is taken whatever its
\* number
getPurchaseDetailsAny(d, txid, purchaseNumber) ==
    IF PartialKey(d, "p", txid) = {} THEN PurchaseDetails(FALSE, <<>>)
    ELSE PurchaseDetails(TRUE, d[FirstPaymentRow(PartialKey(d, "p", txid))])

\* value is <<vout, buyer, seller, propertyId, nValue>>; no payment number of
\* the model reaches 2^31, so the comparison of the uint32_t payments with
\* the int purchaseNumber is the comparison of the numbers
getPurchaseDetails(d, txid, purchaseNumber) ==
    IF PaymentRows(d, txid, purchaseNumber) = {} THEN PurchaseDetails(FALSE, <<>>)
    ELSE PurchaseDetails(TRUE, d[FirstPaymentRow(PaymentRows(d, txid, purchaseNumber))])

\* the first row under PartialKey<CDexCancelTxKey>(txid): the highest
\* number, then block, then valid
FirstCancelOfTx(d, txid) ==
    FirstPaymentRow({k \in PartialKey(d, "c", txid) : k[3] = FirstSeq(d, "c", txid)})

\* a CDexCancelTxValue read as uint32_t: the first four bytes of the
\* value, which are the byte of propertyId (below 128) and the three lowest
\* bytes of amount, the least significant first
CancelValueAsUint32(value) == value[1] + 256 * (value[2] % 16777216)

\* ValueOr<uint32_t>(0) of the iterator at the txid's cancel sub-records
getNumberOfMetaDExCancels(d, txid) ==
    IF PartialKey(d, "c", txid) = {} THEN 0
    ELSE CancelValueAsUint32(d[FirstCancelOfTx(d, txid)])

\* the order of the primary records of one txid: block, then valid, then
\* type, as the key serializes them
TxKeyBefore(k, o) ==
    \/ k[3] < o[3]
    \/ k[3] = o[3] /\ k[4] < o[4]
    \/ k[3] = o[3] /\ k[4] = o[4] /\ k[5] < o[5]

FirstTxRow(rows) ==
    CHOOSE k \in rows : \A o \in rows : k = o \/ TxKeyBefore(k, o)

\* the iterator at PartialKey<CTxKey>(txid): the first primary record of txid
getTX(d, txid) ==
    IF PartialKey(d, "t", txid) = {}
    THEN [status |-> FALSE, key |-> CTxKey(txid, 0, 0, 0), value |-> 0]
    ELSE [status |-> TRUE, key |-> FirstTxRow(PartialKey(d, "t", txid)),
          value |-> d[FirstTxRow(PartialKey(d, "t", txid))]]

\* as FirstPaymentOfTx, but with the numbers stored in ascending order
FirstPaymentOfTxAscending(d, txid) ==
    FirstPaymentRow(PaymentRows(d, txid,
                                Min({k[3] : k \in PartialKey(d, "p", txid)})))

\* the first row under PartialKey<CPaymentTxKey>(txid): the highest number,
\* then block, then valid
FirstPaymentOfTx(d, txid) ==
    FirstPaymentRow(PaymentRows(d, txid, FirstSeq(d, "p", txid)))

\* the bytes of a payment row read into the int64_t value
PaymentAsInt64(row) == <<"int64", row>>

MPTX(validity, block, type, nAmended) ==
    [validity |-> validity, block |-> block, type |-> type, nAmended |-> nAmended]

\* block, type and nAmended are the caller's variables, assigned only when
\* a row is found; validity is the value returned
getValidMPTX(d, txid, block, type, nAmended) ==
    IF getTX(d, txid).status
    THEN MPTX(getTX(d, txid).key[4] > 0, getTX(d, txid).key[3],
              getTX(d, txid).key[5], getTX(d, txid).value)
    ELSE IF PartialKey(d, "p", txid) # {}
    THEN MPTX(FirstPaymentOfTx(d, txid)[5] > 0, FirstPaymentOfTx(d, txid)[4], 0,
              PaymentAsInt64(d[FirstPaymentOfTx(d, txid)]))
    ELSE MPTX(FALSE, block, type, nAmended)

\* the range of token ids a grant transaction created; (0, 0) without row
GetNonFungibleGrant(d, txid) ==
    IF CNonFugibleKey(txid) \in DOMAIN d THEN d[CNonFugibleKey(txid)] ELSE <<0, 0>>

RecordNonFungibleGrant(d, txid, start, end) ==
    Write(d, CNonFugibleKey(txid), <<start, end>>)

(***************************************************************************)
(* Deletion.                                                               *)
(***************************************************************************)
\* as DeleteToBatch, but the loop runs on to the end of the schema
DeleteToBatchToEnd(d, prefix, txid) ==
    {k \in SchemaKeys(d, prefix) : k[2] >= txid}

\* the keys DeleteToBatch<T> puts into the batch; it returns found = (keys # {})
DeleteToBatch(d, prefix, txid) == PartialKey(d, prefix, txid)

\* lines 1232-1237 for one txid: || and && evaluate their right operand only
\* when the left one does not decide the result
DeletedOfTx(d, txid) ==
    LET t == DeleteToBatch(d, "t", txid)
        p == DeleteToBatch(d, "p", txid)
        c == DeleteToBatch(d, "c", txid)
    IN  (IF t # {} THEN t ELSE IF p # {} THEN p ELSE c)
        \cup DeleteToBatch(d, "s", txid)
        \cup DeleteToBatch(d, "e", txid)

\* the txids that reach cancelTxs.insert (line 1235)
CancelTxsOf(d, txs) ==
    {txid \in txs : /\ DeleteToBatch(d, "t", txid) = {}
                    /\ DeleteToBatch(d, "p", txid) = {}
                    /\ DeleteToBatch(d, "c", txid) # {}}

\* mutant: the scan deletes every link it visits instead of those whose value
\* it can erase from cancelTxs
ScanCancelLinksNoErase(d, links, cancelTxs) ==
    IF cancelTxs = {} THEN {} ELSE links

\* lines 1242-1248: the reverse links are visited in key order while cancelTxs
\* is not empty; a link is deleted when erasing its value from cancelTxs succeeds
RECURSIVE ScanCancelLinks(_, _, _)
ScanCancelLinks(d, links, cancelTxs) ==
    IF links = {} \/ cancelTxs = {} THEN {}
    ELSE LET k == CDexTxToCancelKey(Min({l[2] : l \in links}))
         IN  IF d[k] \in cancelTxs
             THEN {k} \cup ScanCancelLinks(d, links \ {k}, cancelTxs \ {d[k]})
             ELSE ScanCancelLinks(d, links \ {k}, cancelTxs)

\* mutant: the loop stops one height too early
BlockRowsAbove(d, block) == {k \in SchemaKeys(d, "b") : ~(k[2] <= block)}

\* lines 1227-1230: block-index rows from the highest height down to `block`
BlockRowsFrom(d, block) == {k \in SchemaKeys(d, "b") : ~(k[2] < block)}

deleteTransactions(d, txs, block) ==
    LET batch == BlockRowsFrom(d, block)
                 \cup UNION {DeletedOfTx(d, txid) : txid \in txs}
                 \cup ScanCancelLinks(d, SchemaKeys(d, "e"), CancelTxsOf(d, txs))
    IN  WriteBatch(d, batch)

(***************************************************************************)
(* The checkpoint store.  A state file is a sequence of bytes, a byte is a  *)
(* one-character string.  First the conversions between numbers and text.  *)
(***************************************************************************)
FILETYPE_BALANCES == 0
FILETYPE_OFFERS == 1
FILETYPE_ACCEPTS == 2
FILETYPE_GLOBALS == 3
FILETYPE_CROWDSALES == 4
FILETYPE_MDEXORDERS == 5
NUM_FILETYPES == 6
OMNI_PROPERTY_BTC == 0

NL == "\n"
CR == "\r"
DigitChars == <<"0", "1", "2", "3", "4", "5", "6", "7", "8", "9">>
HexChars == DigitChars \o <<"a", "b", "c", "d", "e", "f">>
HexCharsUpper == DigitChars \o <<"A", "B", "C", "D", "E", "F">>

IsDigit(c) == \E i \in 1..10 : DigitChars[i] = c
DigitVal(c) == (CHOOSE i \in 1..10 : DigitChars[i] = c) - 1
IsHex(c) == \E i \in 1..16 : HexChars[i] = c \/ HexCharsUpper[i] = c
HexVal(c) == (CHOOSE i \in 1..16 : HexChars[i] = c \/ HexCharsUpper[i] = c) - 1

\* strprintf("%d", n) of a number that is not negative
RECURSIVE FormatInt(_)
FormatInt(n) ==
    IF n < 10 THEN <<DigitChars[n + 1]>>
    ELSE FormatInt(n \div 10) \o <<DigitChars[(n % 10) + 1]>>

\* uint256::ToString, leading zeros left out
RECURSIVE FormatHex(_)
FormatHex(n) ==
    IF n < 16 THEN <<HexChars[n + 1]>>
    ELSE FormatHex(n \div 16) \o <<HexChars[(n % 16) + 1]>>

RECURSIVE DecimalValue(_)
DecimalValue(str) ==
    IF str = <<>> THEN 0
    ELSE 10 * DecimalValue(SubSeq(str, 1, Len(str) - 1)) + DigitVal(str[Len(str)])

\* boost::lexical_cast to an integer type: the whole string has to be a number,
\* otherwise bad_lexical_cast is thrown (ok = FALSE)
lexical_cast(str) ==
    IF str # <<>> /\ \A i \in 1..Len(str) : IsDigit(str[i])
    THEN [ok |-> TRUE, v |-> DecimalValue(str)]
    ELSE [ok |-> FALSE, v |-> 0]

\* the digits str starts with
RECURSIVE DigitPrefix(_)
DigitPrefix(str) ==
    IF str = <<>> \/ ~IsDigit(Head(str)) THEN <<>>
    ELSE <<Head(str)>> \o DigitPrefix(Tail(str))

\* atoi: the number the string starts with, 0 if it starts with none
atoi(str) == DecimalValue(DigitPrefix(str))

\* the hex digits str starts with
RECURSIVE HexPrefix(_)
HexPrefix(str) ==
    IF str = <<>> \/ ~IsHex(Head(str)) THEN <<>>
    ELSE <<Head(str)>> \o HexPrefix(Tail(str))

RECURSIVE HexValue(_)
HexValue(str) ==
    IF str = <<>> THEN 0
    ELSE 16 * HexValue(SubSeq(str, 1, Len(str) - 1)) + HexVal(str[Len(str)])

\* uint256S: the hex digits the string starts with, nothing is rejected
uint256S(str) == HexValue(HexPrefix(str))

\* boost::split(result, str, boost::is_any_of(seps), boost::token_compress_on):
\* adjacent separators count as one; a separator at either end of the string
\* gives an empty first or last token
RECURSIVE Split(_, _)
Split(str, seps) ==
    IF str = <<>> THEN << <<>> >>
    ELSE LET rest == Split(Tail(str), seps)
         IN  IF Head(str) \in seps
             THEN IF Len(str) > 1 /\ str[2] \in seps THEN rest
                  ELSE << <<>> >> \o rest
             ELSE << <<Head(str)>> \o rest[1] >> \o Tail(rest)

\* the lines std::getline reads one after the other
RECURSIVE Lines(_)
Lines(bytes) ==
    IF bytes = <<>> THEN << <<>> >>
    ELSE LET rest == Lines(Tail(bytes))
         IN  IF Head(bytes) = NL THEN << <<>> >> \o rest
             ELSE << <<Head(bytes)>> \o rest[1] >> \o Tail(rest)

\* the strings of seq joined with sep between them
RECURSIVE Join(_, _)
Join(seq, sep) ==
    IF seq = <<>> THEN <<>>
    ELSE IF Len(seq) = 1 THEN seq[1]
    ELSE seq[1] \o <<sep>> \o Join(Tail(seq), sep)

\* the elements of a finite set of integers in ascending order
RECURSIVE Ascending(_)
Ascending(S) ==
    IF S = {} THEN <<>> ELSE <<Min(S)>> \o Ascending(S \ {Min(S)})

\* line.erase(std::remove(line.begin(), line.end(), '\r'), line.end())
RemoveCR(line) == SelectSeq(line, LAMBDA c : c # CR)

(***************************************************************************)
(* Writing the tables.  Every writer returns the lines it writes; each     *)
(* line goes to the hasher and, followed by a line break, to the file.     *)
(***************************************************************************)
\* the addresses of the model, in the order in which the maps are iterated
Addresses == << <<"A">>, <<"B">> >>
AddressesIn(table) == SelectSeq(Addresses, LAMBDA a : a \in DOMAIN table)

BALANCE == 1
SELLOFFER_RESERVE == 2
ACCEPT_RESERVE == 3
METADEX_RESERVE == 4
NoMoney == <<0, 0, 0, 0>>

\* lines 87-107: the "propertyId:balance,sell,accept,metadex;" of one address,
\* a property whose four amounts are zero is left out
RECURSIVE BalanceTuples(_, _)
BalanceTuples(tally, props) ==
    IF props = <<>> THEN <<>>
    ELSE LET m == tally[Head(props)]
             rest == BalanceTuples(tally, Tail(props))
         IN  IF m = NoMoney THEN rest
             ELSE FormatInt(Head(props)) \o <<":">>
                  \o Join(<<FormatInt(m[BALANCE]), FormatInt(m[SELLOFFER_RESERVE]),
                            FormatInt(m[ACCEPT_RESERVE]),
                            FormatInt(m[METADEX_RESERVE])>>, ",")
                  \o <<";">> \o rest

\* lines 79-116: one line per address that has a property to write
RECURSIVE BalanceLines(_, _)
BalanceLines(tallyMap, addrs) ==
    IF addrs = <<>> THEN <<>>
    ELSE LET tuples == BalanceTuples(tallyMap[Head(addrs)],
                                     Ascending(DOMAIN tallyMap[Head(addrs)]))
             rest == BalanceLines(tallyMap, Tail(addrs))
         IN  IF tuples = <<>> THEN rest
             ELSE <<Head(addrs) \o <<"=">> \o tuples>> \o rest

write_msc_balances(tallyMap) == BalanceLines(tallyMap, AddressesIn(tallyMap))

\* a writer that puts the two property counters in the other order
write_globals_swapped(globals) ==
    << Join(<<FormatInt(globals[1]), FormatInt(globals[3]), FormatInt(globals[2])>>,
            ",") >>

\* globals: <<exodus_prev, nextSPID, nextTestSPID>>
write_globals_state(globals) ==
    << Join(<<FormatInt(globals[1]), FormatInt(globals[2]), FormatInt(globals[3])>>,
            ",") >>

(***************************************************************************)
(* Reading the tables back.  An input function returns the table after the *)
(* line and res: "ok" (0), "fail" (-1) or "throw" (bad_lexical_cast leaves *)
(* the function; nothing in this file catches it).                         *)
(***************************************************************************)
Result(res, table) == [res |-> res, table |-> table]

\* the tally of an address and the amounts of a property, zero when missing
TallyOf(tallyMap, address) ==
    IF address \in DOMAIN tallyMap THEN tallyMap[address] ELSE <<>>
MoneyOf(tally, propertyId) ==
    IF propertyId \in DOMAIN tally THEN tally[propertyId] ELSE NoMoney
\* table[key] = value, whether or not the key was there
Insert(table, key, value) ==
    [k \in (DOMAIN table) \cup {key} |-> IF k = key THEN value ELSE table[k]]

\* update_tally_map: add amount to one field of the tally of address and
\* property, creating the entries that do not exist
update_tally_map(tallyMap, address, propertyId, amount, ttype) ==
    Insert(tallyMap, address,
        Insert(TallyOf(tallyMap, address), propertyId,
            [MoneyOf(TallyOf(tallyMap, address), propertyId)
                EXCEPT ![ttype] = @ + amount]))

\* lines 230-233: if (amount) update_tally_map(...)
UpdateIf(tallyMap, address, propertyId, amount, ttype) ==
    IF amount # 0 THEN update_tally_map(tallyMap, address, propertyId, amount, ttype)
    ELSE tallyMap

UpdateNonZero(tallyMap, address, propertyId, amounts) ==
    UpdateIf(
        UpdateIf(
            UpdateIf(
                UpdateIf(tallyMap, address, propertyId, amounts[1], BALANCE),
                address, propertyId, amounts[2], SELLOFFER_RESERVE),
            address, propertyId, amounts[3], ACCEPT_RESERVE),
        address, propertyId, amounts[4], METADEX_RESERVE)

\* every string of strs is a number for boost::lexical_cast
AllCast(strs) == \A i \in 1..Len(strs) : lexical_cast(strs[i]).ok
\* the numbers of strings that are all numbers
Casts(strs) == [i \in 1..Len(strs) |-> lexical_cast(strs[i]).v]

RECURSIVE InputBalanceTuples(_, _, _)

\* lines 218-233: "balance,sellreserved,acceptreserved,metadexreserved"
InputBalanceAmounts(tallyMap, strAddress, strProperty, curBalance, rest) ==
    IF Len(curBalance) # 4 THEN Result("fail", tallyMap)
    ELSE IF ~AllCast(<<strProperty>> \o curBalance) THEN Result("throw", tallyMap)
    ELSE InputBalanceTuples(
             UpdateNonZero(tallyMap, strAddress, lexical_cast(strProperty).v,
                           Casts(curBalance)),
             strAddress, rest)

\* lines 213-216: "propertyid:balancedata"
InputBalanceTuple(tallyMap, strAddress, curProperty, rest) ==
    IF Len(curProperty) # 2 THEN Result("fail", tallyMap)
    ELSE InputBalanceAmounts(tallyMap, strAddress, curProperty[1],
                             Split(curProperty[2], {","}), rest)

\* lines 208-234: the property tuples of one line, one after the other
InputBalanceTuples(tallyMap, strAddress, vProperties) ==
    IF vProperties = <<>> THEN Result("ok", tallyMap)
    ELSE IF Head(vProperties) = <<>>
    THEN InputBalanceTuples(tallyMap, strAddress, Tail(vProperties))
    ELSE InputBalanceTuple(tallyMap, strAddress, Split(Head(vProperties), {":"}),
                           Tail(vProperties))

InputBalances(tallyMap, addrData) ==
    IF Len(addrData) # 2 THEN Result("fail", tallyMap)
    ELSE InputBalanceTuples(tallyMap, addrData[1], Split(addrData[2], {";"}))

input_msc_balances_string(tallyMap, str) == InputBalances(tallyMap, Split(str, {"="}))

InputGlobals(globals, vstr) ==
    IF Len(vstr) # 3 THEN Result("fail", globals)
    ELSE IF ~AllCast(vstr) THEN Result("throw", globals)
    ELSE Result("ok", Casts(vstr))

input_globals_state_string(globals, str) ==
    InputGlobals(globals, Split(str, {" ", ",", "="}))

(***************************************************************************)
(* Sell offers, accepts, crowdsales and MetaDEx orders.  The objects write *)
(* their own lines (saveOffer, saveAccept, saveCrowdSale); the fields are  *)
(* the ones the input functions read, in the order of the comments above   *)
(* each input function.  A 256 bit identifier is written in hexadecimal.   *)
(***************************************************************************)
Fields(seq) == Join(seq, ",")
\* the keys of a std::map in the order of its iteration
KeysOf(table, order) == SelectSeq(order, LAMBDA k : k \in DOMAIN table)
uint8(n) == n % 256

STR_SELLOFFER_ADDR_PROP_COMBO(addr, prop) == addr \o <<"-">> \o FormatInt(prop)
STR_ACCEPT_ADDR_PROP_ADDR_COMBO(seller, buyer, prop) ==
    seller \o <<"-">> \o FormatInt(prop) \o <<"+">> \o buyer

OfferKeyOrder ==
    << STR_SELLOFFER_ADDR_PROP_COMBO(Addresses[1], 1),
       STR_SELLOFFER_ADDR_PROP_COMBO(Addresses[2], 1) >>
AcceptKeyOrder ==
    << STR_ACCEPT_ADDR_PROP_ADDR_COMBO(Addresses[1], Addresses[2], 1),
       STR_ACCEPT_ADDR_PROP_ADDR_COMBO(Addresses[2], Addresses[1], 1) >>

saveOffer(offer, addr) ==
    Fields(<<addr, FormatInt(offer.offerBlock), FormatInt(offer.amountOriginal),
             FormatInt(offer.prop), FormatInt(offer.btcDesired),
             FormatInt(OMNI_PROPERTY_BTC), FormatInt(offer.minFee),
             FormatInt(offer.blocktimelimit), FormatHex(offer.txid)>>)

RECURSIVE OfferLines(_, _)
OfferLines(offers, keys) ==
    IF keys = <<>> THEN <<>>
    ELSE LET vstr == Split(Head(keys), {"-"})
         IN  <<saveOffer(offers[Head(keys)], vstr[1])>> \o OfferLines(offers, Tail(keys))

write_mp_offers(offers) == OfferLines(offers, KeysOf(offers, OfferKeyOrder))

saveAccept(accept, addr, buyer) ==
    Fields(<<addr, FormatInt(accept.prop), buyer, FormatInt(accept.nBlock),
             FormatInt(accept.amountRemaining), FormatInt(accept.amountOriginal),
             FormatInt(accept.blocktimelimit), FormatInt(accept.offerOriginal),
             FormatInt(accept.btcDesired), FormatHex(accept.txid)>>)

RECURSIVE AcceptLines(_, _)
AcceptLines(accepts, keys) ==
    IF keys = <<>> THEN <<>>
    ELSE LET vstr == Split(Head(keys), {"-", "+"})
         IN  <<saveAccept(accepts[Head(keys)], vstr[1], vstr[3])>>
             \o AcceptLines(accepts, Tail(keys))

write_mp_accepts(accepts) == AcceptLines(accepts, KeysOf(accepts, AcceptKeyOrder))

\* the ",txid=value;value" entries of the fundraiser database of a crowdsale
RECURSIVE DatabaseFields(_, _)
DatabaseFields(database, txids) ==
    IF txids = <<>> THEN <<>>
    ELSE <<",">> \o FormatHex(Head(txids)) \o <<"=">>
         \o Join([i \in 1..Len(database[Head(txids)]) |->
                      FormatInt(database[Head(txids)][i])], ";")
         \o DatabaseFields(database, Tail(txids))

saveCrowdSale(crowd, addr) ==
    Fields(<<addr, FormatInt(crowd.propertyId), FormatInt(crowd.nValue),
             FormatInt(crowd.property_desired), FormatInt(crowd.deadline),
             FormatInt(crowd.early_bird), FormatInt(crowd.percentage),
             FormatInt(crowd.u_created), FormatInt(crowd.i_created)>>)
    \o DatabaseFields(crowd.database, Ascending(DOMAIN crowd.database))

RECURSIVE CrowdLines(_, _)
CrowdLines(crowds, keys) ==
    IF keys = <<>> THEN <<>>
    ELSE <<saveCrowdSale(crowds[Head(keys)], Head(keys))>>
         \o CrowdLines(crowds, Tail(keys))

write_mp_crowdsales(crowds) == CrowdLines(crowds, KeysOf(crowds, Addresses))

saveMetaDExOffer(meta) ==
    Fields(<<meta.addr, FormatInt(meta.block), FormatInt(meta.amount_forsale),
             FormatInt(meta.property), FormatInt(meta.amount_desired),
             FormatInt(meta.desired_property), FormatInt(meta.subaction),
             FormatInt(meta.idx), FormatHex(meta.txid),
             FormatInt(meta.amount_remaining)>>)

\* the orders of the book in the order of its iteration
RECURSIVE MetaDExLines(_, _)
MetaDExLines(book, txids) ==
    IF txids = <<>> THEN <<>>
    ELSE <<saveMetaDExOffer(CHOOSE m \in book : m.txid = Head(txids))>>
         \o MetaDExLines(book, Tail(txids))

write_mp_metadex(book) == MetaDExLines(book, Ascending({m.txid : m \in book}))

\* the number the string at place i of vstr is
Cast(vstr, i) == lexical_cast(vstr[i]).v
\* the strings of vstr at the places idx are numbers
CastAt(vstr, idx) == \A i \in idx : lexical_cast(vstr[i]).ok

\* std::map::insert: nothing is inserted when the key is there
InsertNew(table, key, value) ==
    IF key \in DOMAIN table THEN Result("fail", table)
    ELSE Result("ok", Insert(table, key, value))

InputOffer(offers, vstr) ==
    IF 9 # Len(vstr) THEN Result("fail", offers)
    ELSE IF ~CastAt(vstr, 2..8) THEN Result("throw", offers)
    ELSE IF OMNI_PROPERTY_BTC # Cast(vstr, 6) THEN Result("fail", offers)
    ELSE InsertNew(offers, STR_SELLOFFER_ADDR_PROP_COMBO(vstr[1], Cast(vstr, 4)),
                   [offerBlock |-> Cast(vstr, 2), amountOriginal |-> Cast(vstr, 3),
                    prop |-> Cast(vstr, 4), btcDesired |-> Cast(vstr, 5),
                    minFee |-> Cast(vstr, 7),
                    blocktimelimit |-> uint8(Cast(vstr, 8)),
                    txid |-> uint256S(vstr[9])])

input_mp_offers_string(offers, str) == InputOffer(offers, Split(str, {" ", ",", "="}))

InputAccept(accepts, vstr) ==
    IF 10 # Len(vstr) THEN Result("fail", accepts)
    ELSE IF ~CastAt(vstr, {2, 5, 6, 8, 9}) THEN Result("throw", accepts)
    ELSE InsertNew(accepts,
                   STR_ACCEPT_ADDR_PROP_ADDR_COMBO(vstr[1], vstr[3], Cast(vstr, 2)),
                   [amountOriginal |-> Cast(vstr, 6),
                    amountRemaining |-> Cast(vstr, 5), nBlock |-> atoi(vstr[4]),
                    blocktimelimit |-> uint8(atoi(vstr[7])), prop |-> Cast(vstr, 2),
                    offerOriginal |-> Cast(vstr, 8), btcDesired |-> Cast(vstr, 9),
                    txid |-> uint256S(vstr[10])])

input_mp_accepts_string(accepts, str) ==
    InputAccept(accepts, Split(str, {" ", ",", "="}))

RECURSIVE InputDatabase(_, _)

\* lines 354-363: the values of one entry
InputDatabaseValues(database, strTxid, valueData, rest) ==
    IF ~AllCast(valueData) THEN Result("throw", database)
    ELSE InputDatabase(Insert(database, uint256S(strTxid), Casts(valueData)), rest)

\* lines 350-352: "txid=values"
InputDatabaseEntry(database, entryData, rest) ==
    IF 2 # Len(entryData) THEN Result("fail", database)
    ELSE InputDatabaseValues(database, entryData[1], Split(entryData[2], {";"}),
                             rest)

\* lines 349-364: the "txid=value;value" strings after the ninth field
InputDatabase(database, entries) ==
    IF entries = <<>> THEN Result("ok", database)
    ELSE InputDatabaseEntry(database, Split(Head(entries), {"="}), Tail(entries))

\* lines 366-370, after the database was read
InputCrowdWith(crowds, vstr, pairs) ==
    IF pairs.res # "ok" THEN Result(pairs.res, crowds)
    ELSE InsertNew(crowds, vstr[1],
                   [propertyId |-> Cast(vstr, 2), nValue |-> Cast(vstr, 3),
                    property_desired |-> Cast(vstr, 4), deadline |-> Cast(vstr, 5),
                    early_bird |-> uint8(Cast(vstr, 6)),
                    percentage |-> uint8(Cast(vstr, 7)),
                    u_created |-> Cast(vstr, 8), i_created |-> Cast(vstr, 9),
                    database |-> pairs.table])

InputCrowd(crowds, vstr) ==
    IF 9 > Len(vstr) THEN Result("fail", crowds)
    ELSE IF ~CastAt(vstr, 2..9) THEN Result("throw", crowds)
    ELSE InputCrowdWith(crowds, vstr,
                        InputDatabase(<<>>, SubSeq(vstr, 10, Len(vstr))))

input_mp_crowdsale_string(crowds, str) == InputCrowd(crowds, Split(str, {" ", ","}))

\* MetaDEx_INSERT: false when the order is in the book already
MetaDEx_INSERT(book, mdexObj) ==
    IF mdexObj \in book THEN Result("fail", book)
    ELSE Result("ok", book \cup {mdexObj})

InputMetaDEx(book, vstr) ==
    IF 10 # Len(vstr) THEN Result("fail", book)
    ELSE IF ~CastAt(vstr, {2, 3, 4, 5, 6, 7, 8, 10}) THEN Result("throw", book)
    ELSE MetaDEx_INSERT(book,
             [addr |-> vstr[1], block |-> Cast(vstr, 2),
              amount_forsale |-> Cast(vstr, 3), property |-> Cast(vstr, 4),
              amount_desired |-> Cast(vstr, 5), desired_property |-> Cast(vstr, 6),
              subaction |-> uint8(Cast(vstr, 7)), idx |-> Cast(vstr, 8),
              txid |-> uint256S(vstr[9]), amount_remaining |-> Cast(vstr, 10)])

input_mp_mdexorder_string(book, str) ==
    InputMetaDEx(book, Split(str, {" ", ",", "="}))

(***************************************************************************)
(* State files.  A file is the bytes written to it.  The 64 hexadecimal    *)
(* digits of the double hash on the sentinel line are written as the one   *)
(* symbol DigestSymbol, and the file carries beside its bytes the digest   *)
(* the symbol stands for.  The hash is taken to be free of collisions: the *)
(* digest of a byte stream is the stream.                                  *)
(***************************************************************************)
DigestSymbol == "h"
Hash256(stream) == stream
SentinelLine == <<"!", DigestSymbol, NL>>

statePrefix ==
    << <<"b", "a", "l", "a", "n", "c", "e", "s">>,
       <<"o", "f", "f", "e", "r", "s">>,
       <<"a", "c", "c", "e", "p", "t", "s">>,
       <<"g", "l", "o", "b", "a", "l", "s">>,
       <<"c", "r", "o", "w", "d", "s", "a", "l", "e", "s">>,
       <<"m", "d", "e", "x", "o", "r", "d", "e", "r", "s">> >>
FileTypes == 0..(NUM_FILETYPES - 1)
is_state_prefix(str) == \E i \in FileTypes : str = statePrefix[i + 1]
DatSuffix == <<"d", "a", "t">>

\* strprintf("%s-%s.dat", statePrefix[what], hash.ToString())
FileName(what, hash) ==
    statePrefix[what + 1] \o <<"-">> \o FormatHex(hash) \o <<".">> \o DatSuffix

\* the tables in memory
NoTable(what) == IF what = FILETYPE_MDEXORDERS THEN {} ELSE <<>>
TableField ==
    <<"mp_tally_map", "my_offers", "my_accepts", "globals", "my_crowds", "metadex">>
TableOf(m, what) == m[TableField[what + 1]]
SetTable(m, what, table) == [m EXCEPT ![TableField[what + 1]] = table]

\* the lines followed by their line breaks
RECURSIVE FileBytes(_)
FileBytes(lines) ==
    IF lines = <<>> THEN <<>> ELSE Head(lines) \o <<NL>> \o FileBytes(Tail(lines))
\* what the hasher was given: the lines without their line breaks
RECURSIVE Hashed(_)
Hashed(lines) == IF lines = <<>> THEN <<>> ELSE Head(lines) \o Hashed(Tail(lines))

TableLines(m, what) ==
    CASE what = FILETYPE_BALANCES -> write_msc_balances(m.mp_tally_map)
      [] what = FILETYPE_OFFERS -> write_mp_offers(m.my_offers)
      [] what = FILETYPE_ACCEPTS -> write_mp_accepts(m.my_accepts)
      [] what = FILETYPE_GLOBALS -> write_globals_state(m.globals)
      [] what = FILETYPE_CROWDSALES -> write_mp_crowdsales(m.my_crowds)
      [] what = FILETYPE_MDEXORDERS -> write_mp_metadex(m.metadex)

\* the file is opened for writing, which empties a file of that name
StateFile(lines) ==
    [bytes |-> FileBytes(lines) \o SentinelLine, digest |-> Hash256(Hashed(lines))]

write_state_file(dir, m, pBlockIndex, what) ==
    Insert(dir, FileName(what, pBlockIndex.hash), StateFile(TableLines(m, what)))

\* lines 456-475: the block hashes of the state files of the directory
StatefulBlockHashes(dir) ==
    {uint256S(Split(fName, {"-", "."})[2]) :
        fName \in {f \in DOMAIN dir :
                      LET vstr == Split(f, {"-", "."})
                      IN  /\ Len(vstr) = 3
                          /\ is_state_prefix(vstr[1])
                          /\ vstr[3] = DatSuffix}}

\* a pruning that removes the balances files only
PrunedBalancesFiles(dir, topIndex) ==
    {FileName(FILETYPE_BALANCES, blockHash) :
        blockHash \in StatefulBlockHashes(dir) \ {topIndex.hash}}

\* lines 478-492: the files that are removed
PrunedFiles(dir, topIndex) ==
    {FileName(i, blockHash) :
        i \in FileTypes, blockHash \in StatefulBlockHashes(dir) \ {topIndex.hash}}

prune_state_files(dir, topIndex) ==
    [f \in (DOMAIN dir) \ PrunedFiles(dir, topIndex) |-> dir[f]]

RECURSIVE WriteStateFiles(_, _, _, _)
WriteStateFiles(dir, m, pBlockIndex, what) ==
    IF what = NUM_FILETYPES THEN dir
    ELSE WriteStateFiles(write_state_file(dir, m, pBlockIndex, what), m,
                         pBlockIndex, what + 1)

\* the watermark of the property database
NoWatermark == [set |-> FALSE, hash |-> 0, block |-> 0]
setWatermark(hash, block) == [set |-> TRUE, hash |-> hash, block |-> block]

inputLineFunc(what, table, line) ==
    CASE what = FILETYPE_BALANCES -> input_msc_balances_string(table, line)
      [] what = FILETYPE_OFFERS -> input_mp_offers_string(table, line)
      [] what = FILETYPE_ACCEPTS -> input_mp_accepts_string(table, line)
      [] what = FILETYPE_GLOBALS -> input_globals_state_string(table, line)
      [] what = FILETYPE_CROWDSALES -> input_mp_crowdsale_string(table, line)
      [] what = FILETYPE_MDEXORDERS -> input_mp_mdexorder_string(table, line)

RECURSIVE ReadLines(_, _, _, _)

\* lines 619-626: the line was given to the input function
LineRead(what, verifyHash, rest, st, r) ==
    IF r.res # "ok" THEN [st EXCEPT !.res = r.res, !.table = r.table]
    ELSE ReadLines(what, verifyHash, rest, [st EXCEPT !.table = r.table])

\* lines 608-617: a line that is neither empty nor a comment, without its \r
ReadLine(what, verifyHash, line, rest, st) ==
    IF line # <<>> /\ line[1] = "!"
    THEN ReadLines(what, verifyHash, rest, [st EXCEPT !.fileHash = Tail(line)])
    ELSE LineRead(what, verifyHash, rest,
                  IF verifyHash THEN [st EXCEPT !.stream = @ \o line] ELSE st,
                  inputLineFunc(what, st.table, line))

\* lines 600-627: the loop over the lines of the file
ReadLines(what, verifyHash, lines, st) ==
    IF lines = <<>> THEN st
    ELSE IF Head(lines) = <<>> \/ Head(lines)[1] = "#"
    THEN ReadLines(what, verifyHash, Tail(lines), st)
    ELSE ReadLine(what, verifyHash, RemoveCR(Head(lines)), Tail(lines), st)

\* a restore that does not look at the hash
HashNotCompared(file, stream, fileHash) == TRUE

\* line 636: the text of the recomputed hash against the text after the "!"
HashMatches(file, stream, fileHash) ==
    fileHash = <<DigestSymbol>> /\ file.digest = Hash256(stream)

\* lines 631-645: the lines were read
Restored(file, cleared, what, verifyHash, st) ==
    [res |-> IF verifyHash /\ st.res = "ok"
                /\ ~HashMatches(file, st.stream, st.fileHash)
             THEN "fail" ELSE st.res,
     mem |-> SetTable(cleared, what, st.table)]

\* lines 590-629: the table was cleared
RestoreCleared(dir, cleared, filename, what, verifyHash) ==
    IF filename \notin DOMAIN dir THEN [res |-> "fail", mem |-> cleared]
    ELSE Restored(dir[filename], cleared, what, verifyHash,
                  ReadLines(what, verifyHash, Lines(dir[filename].bytes),
                            [table |-> TableOf(cleared, what), stream |-> <<>>,
                             fileHash |-> <<>>, res |-> "ok"]))

\* a restore that reads the file into the table as it is in memory
RestoreInMemoryStateMerging(dir, m, filename, what, verifyHash) ==
    IF what \notin FileTypes THEN [res |-> "fail", mem |-> m]
    ELSE RestoreCleared(dir, m, filename, what, verifyHash)

RestoreInMemoryState(dir, m, filename, what, verifyHash) ==
    IF what \notin FileTypes THEN [res |-> "fail", mem |-> m]
    ELSE RestoreCleared(dir,
                        IF what = FILETYPE_GLOBALS THEN m
                        ELSE SetTable(m, what, NoTable(what)),
                        filename, what, verifyHash)

\* lines 664-674: the result is the height, "fail" for -1, or "throw" when an
\* exception leaves the function; results lists what each restore came to
RECURSIVE RestoreTables(_, _, _, _, _)

TableRestored(dir, wm, i, results, r) ==
    IF r.res = "ok" THEN RestoreTables(dir, r.mem, wm, i + 1, Append(results, r.res))
    ELSE [kind |-> r.res, block |-> -1, mem |-> r.mem,
          results |-> Append(results, r.res)]

RestoreTables(dir, m, wm, i, results) ==
    IF i = NUM_FILETYPES
    THEN [kind |-> "height", block |-> wm.block, mem |-> m, results |-> results]
    ELSE TableRestored(dir, wm, i, results,
                       RestoreInMemoryState(dir, m, FileName(i, wm.hash), i, TRUE))

LoadMostRelevantInMemoryState(dir, m, wm) ==
    IF ~wm.set
    THEN [kind |-> "fail", block |-> -1, mem |-> m, results |-> <<>>]
    ELSE RestoreTables(dir, m, wm, 0, <<>>)

(***************************************************************************)
(* The checkpoint store as a state machine.  Block processing changes the  *)
(* tables in memory; PersistInMemoryState and                              *)
(* LoadMostRelevantInMemoryState are one action each.                      *)
(***************************************************************************)
MaxMemOps == 3

\* the blocks a checkpoint is written for
Blocks == {[hash |-> 10, height |-> 1], [hash |-> 11, height |-> 2]}

\* the next property identifiers of the two ecosystems at start, scaled down
FirstSPID == 3
FirstTestSPID == 5

MemInit ==
    [mp_tally_map |-> <<>>, my_offers |-> <<>>, my_accepts |-> <<>>,
     globals |-> <<0, FirstSPID, FirstTestSPID>>, my_crowds |-> <<>>,
     metadex |-> {}]

NoRet == [kind |-> "none", block |-> 0, results |-> <<>>, since |-> "none"]
NoTrack ==
    [since |-> "none", block |-> [hash |-> 0, height |-> 0], mem |-> MemInit,
     removed |-> {}, what |-> -1]

\* inputs of the changes to the tables
TallyProperties == {1}
TallyAmounts == {1, -1}
TheOffer ==
    [offerBlock |-> 1, amountOriginal |-> 5, prop |-> 1, btcDesired |-> 2,
     minFee |-> 1, blocktimelimit |-> 6, txid |-> 12]
TheAccept ==
    [amountOriginal |-> 4, amountRemaining |-> 3, nBlock |-> 1,
     blocktimelimit |-> 6, prop |-> 1, offerOriginal |-> 5, btcDesired |-> 2,
     txid |-> 12]
Databases == {<<>>, 13 :> <<1, 2>>}
TheCrowd(database) ==
    [propertyId |-> 3, nValue |-> 1, property_desired |-> 1, deadline |-> 9,
     early_bird |-> 0, percentage |-> 0, u_created |-> 0, i_created |-> 0,
     database |-> database]
TheOrder ==
    [addr |-> Addresses[1], block |-> 1, amount_forsale |-> 4, property |-> 1,
     amount_desired |-> 2, desired_property |-> 3, subaction |-> 1, idx |-> 1,
     txid |-> 14, amount_remaining |-> 4]

\* no PersistInMemoryState is under way
Idle == [step |-> -1, block |-> [hash |-> 0, height |-> 0]]

\* the files of the last checkpoint are as they were written, and the node is
\* not in the middle of writing a checkpoint
Intact == track.since \in {"none", "persisted", "changed", "crashed"} /\ pc = Idle

\* what a change of a table leaves of the bookkeeping of the model
Changed ==
    /\ nMemOps' = nMemOps + 1
    /\ track' = [track EXCEPT !.since = IF @ = "none" THEN @ ELSE "changed"]
    /\ ret' = NoRet
    /\ UNCHANGED <<files, watermark, pc, txvars, nftvars, probe>>

getMoney(tallyMap, address, propertyId, ttype) ==
    IF address \in DOMAIN tallyMap /\ propertyId \in DOMAIN tallyMap[address]
    THEN tallyMap[address][propertyId][ttype] ELSE 0

UpdateTally ==
    \E a \in 1..Len(Addresses), propertyId \in TallyProperties,
       amount \in TallyAmounts :
        /\ nMemOps < MaxMemOps /\ Intact
        /\ getMoney(mem.mp_tally_map, Addresses[a], propertyId, BALANCE) + amount >= 0
        /\ mem' = [mem EXCEPT !.mp_tally_map =
                       update_tally_map(@, Addresses[a], propertyId, amount, BALANCE)]
        /\ Changed

DExSell ==
    LET combo == STR_SELLOFFER_ADDR_PROP_COMBO(Addresses[1], TheOffer.prop)
    IN  /\ nMemOps < MaxMemOps /\ Intact
        /\ combo \notin DOMAIN mem.my_offers
        /\ mem' = [mem EXCEPT !.my_offers = Insert(@, combo, TheOffer)]
        /\ Changed

DExAccept ==
    LET combo == STR_ACCEPT_ADDR_PROP_ADDR_COMBO(Addresses[1], Addresses[2],
                                                 TheAccept.prop)
    IN  /\ nMemOps < MaxMemOps /\ Intact
        /\ combo \notin DOMAIN mem.my_accepts
        /\ mem' = [mem EXCEPT !.my_accepts = Insert(@, combo, TheAccept)]
        /\ Changed

CreateProperty ==
    /\ nMemOps < MaxMemOps /\ Intact
    /\ mem' = [mem EXCEPT !.globals[2] = @ + 1]
    /\ Changed

CreateCrowdsale ==
    \E database \in Databases :
        /\ nMemOps < MaxMemOps /\ Intact
        /\ Addresses[1] \notin DOMAIN mem.my_crowds
        /\ mem' = [mem EXCEPT !.my_crowds = Insert(@, Addresses[1], TheCrowd(database))]
        /\ Changed

MetaDExTrade ==
    /\ nMemOps < MaxMemOps /\ Intact
    /\ TheOrder \notin mem.metadex
    /\ mem' = [mem EXCEPT !.metadex = MetaDEx_INSERT(@, TheOrder).table]
    /\ Changed

PersistInMemoryState ==
    \E pBlockIndex \in Blocks :
        \E written \in {WriteStateFiles(files, mem, pBlockIndex, 0)} :
            /\ Intact
            /\ files' = prune_state_files(written, pBlockIndex)
            /\ watermark' = setWatermark(pBlockIndex.hash, pBlockIndex.height)
            /\ track' = [since |-> "persisted", block |-> pBlockIndex, mem |-> mem,
                         removed |-> (DOMAIN written) \ DOMAIN files', what |-> -1]
            /\ ret' = NoRet
            /\ UNCHANGED <<mem, nMemOps, pc, txvars, nftvars, probe>>

\* the calls of PersistInMemoryState when file.open fails for the files of
\* `failed`: the stream stays in its failed state, nothing reaches the
\* directory, and write_state_file returns the 0 of the table's writer
RECURSIVE WriteStateFilesBut(_, _, _, _, _)
WriteStateFilesBut(dir, m, pBlockIndex, what, failed) ==
    IF what = NUM_FILETYPES THEN dir
    ELSE WriteStateFilesBut(IF what \in failed THEN dir
                            ELSE write_state_file(dir, m, pBlockIndex, what),
                            m, pBlockIndex, what + 1, failed)

\* PersistInMemoryState with one file that cannot be opened: the results of
\* write_state_file are dropped, the directory is pruned, the watermark is
\* set and 0 is returned
PersistWithFailure ==
    \E pBlockIndex \in Blocks, what \in FileTypes :
        \E written \in {WriteStateFilesBut(files, mem, pBlockIndex, 0, {what})} :
            /\ Intact
            /\ files' = prune_state_files(written, pBlockIndex)
            /\ watermark' = setWatermark(pBlockIndex.hash, pBlockIndex.height)
            /\ track' = [since |-> "failed", block |-> pBlockIndex, mem |-> mem,
                         removed |-> (DOMAIN written) \ DOMAIN files',
                         what |-> what]
            /\ ret' = NoRet
            /\ probe' = [op |-> "PersistInMemoryState", block |-> pBlockIndex,
                         failed |-> what, result |-> 0, watermark |-> watermark]
            /\ UNCHANGED <<mem, nMemOps, pc, txvars, nftvars>>

Load ==
    \E r \in {LoadMostRelevantInMemoryState(files, mem, watermark)} :
        /\ mem' = r.mem
        /\ ret' = [kind |-> r.kind, block |-> r.block, results |-> r.results,
                   since |-> track.since]
        /\ pc = Idle
        /\ UNCHANGED <<files, watermark, nMemOps, track, pc, txvars, nftvars, probe>>

\* LoadMostRelevantInMemoryState, with the tables as they were in memory
\* before the call kept for comparison; no table changes after this load
\* (nMemOps is at its bound), which keeps the kept tables few
LoadOverMemory ==
    \E r \in {LoadMostRelevantInMemoryState(files, mem, watermark)} :
        /\ mem' = r.mem
        /\ ret' = [kind |-> r.kind, block |-> r.block, results |-> r.results,
                   since |-> track.since]
        /\ probe' = [op |-> "LoadMostRelevantInMemoryState", mem |-> mem]
        /\ pc = Idle
        /\ nMemOps' = MaxMemOps
        /\ UNCHANGED <<files, watermark, track, pc, txvars, nftvars>>

CkInit ==
    /\ mem = MemInit
    /\ files = <<>>
    /\ watermark = NoWatermark
    /\ ret = NoRet
    /\ nMemOps = 0
    /\ track = NoTrack
    /\ pc = Idle

(***************************************************************************)
(* PersistInMemoryState statement by statement (lines 522-532), with a     *)
(* stop of the node between two statements.  pc.step is the number of the  *)
(* statement that comes next: 0..5 write the files, 6 prunes, 7 sets the   *)
(* watermark.                                                              *)
(***************************************************************************)
PRUNE_STEP == 6
WATERMARK_STEP == 7

\* a checkpoint is started after at most this many changes of the tables
MaxCrashOps == 1

StartPersist ==
    \E pBlockIndex \in Blocks :
        /\ Intact
        /\ nMemOps <= MaxCrashOps
        /\ pc' = [step |-> 0, block |-> pBlockIndex]
        /\ ret' = NoRet
        /\ UNCHANGED <<mem, files, watermark, nMemOps, track, txvars, nftvars, probe>>

WriteStep ==
    /\ pc.step \in FileTypes
    /\ files' = write_state_file(files, mem, pc.block, pc.step)
    /\ pc' = [pc EXCEPT !.step = @ + 1]
    /\ UNCHANGED <<mem, watermark, ret, nMemOps, track, txvars, nftvars, probe>>

PruneStep ==
    /\ pc.step = PRUNE_STEP
    /\ files' = prune_state_files(files, pc.block)
    /\ pc' = [pc EXCEPT !.step = @ + 1]
    /\ UNCHANGED <<mem, watermark, ret, nMemOps, track, txvars, nftvars, probe>>

WatermarkStep ==
    /\ pc.step = WATERMARK_STEP
    /\ watermark' = setWatermark(pc.block.hash, pc.block.height)
    /\ pc' = Idle
    /\ track' = [since |-> "persisted", block |-> pc.block, mem |-> mem,
                 removed |-> {}, what |-> -1]
    /\ UNCHANGED <<mem, files, ret, nMemOps, txvars, nftvars, probe>>

\* the node stops in the middle of PersistInMemoryState and starts again:
\* the files and the watermark are what is left, the tables are empty
Crash ==
    /\ pc # Idle
    /\ pc' = Idle
    /\ mem' = MemInit
    /\ track' = [track EXCEPT !.since = "crashed", !.what = pc.step]
    /\ UNCHANGED <<files, watermark, ret, nMemOps, txvars, nftvars, probe>>

(***************************************************************************)
(* Damage to the files of the checkpoint the watermark names, followed to  *)
(* the next load.                                                          *)
(***************************************************************************)
\* the bytes a byte of the data region is changed to
CorruptBytes == {"7", "x", "#", "!", NL, CR}
\* damage is followed for the checkpoints of the first MaxDamagedOps changes
MaxDamagedOps == 2
\* a checkpoint was written, and nothing has been done since
JustPersisted ==
    track.since = "persisted" /\ ret = NoRet /\ nMemOps <= MaxDamagedOps
DataLen(file) == Len(file.bytes) - Len(SentinelLine)
DataLines(file) ==
    LET lines == Lines(SubSeq(file.bytes, 1, DataLen(file)))
    IN  SubSeq(lines, 1, Len(lines) - 1)
Without(seq, i) == SubSeq(seq, 1, i - 1) \o SubSeq(seq, i + 1, Len(seq))

Damaged(kind, what, name, bytes) ==
    /\ files' = [files EXCEPT ![name].bytes = bytes]
    /\ track' = [track EXCEPT !.since = kind, !.what = what, !.removed = {}]
    /\ ret' = NoRet
    /\ UNCHANGED <<mem, watermark, nMemOps, pc, txvars, nftvars, probe>>

CorruptByte ==
    \E what \in FileTypes, byte \in CorruptBytes :
        LET name == FileName(what, watermark.hash)
        IN  /\ JustPersisted
            /\ \E pos \in 1..DataLen(files[name]) :
                   /\ files[name].bytes[pos] # byte
                   /\ Damaged("byte", what, name,
                              [files[name].bytes EXCEPT ![pos] = byte])

TruncateFile ==
    \E what \in FileTypes :
        LET name == FileName(what, watermark.hash)
        IN  /\ JustPersisted
            /\ \E n \in 0..(DataLen(files[name]) + 1) :
                   Damaged("truncated", what, name, SubSeq(files[name].bytes, 1, n))

DropLine ==
    \E what \in FileTypes :
        LET name == FileName(what, watermark.hash)
            lines == DataLines(files[name])
        IN  /\ JustPersisted
            /\ \E i \in 1..Len(lines) :
                   Damaged("dropline", what, name,
                           FileBytes(Without(lines, i)) \o SentinelLine)

RemoveFile ==
    \E what \in FileTypes :
        LET name == FileName(what, watermark.hash)
        IN  /\ JustPersisted
            /\ files' = [f \in (DOMAIN files) \ {name} |-> files[f]]
            /\ track' = [track EXCEPT !.since = "removed", !.what = what,
                                       !.removed = {}]
            /\ ret' = NoRet
            /\ UNCHANGED <<mem, watermark, nMemOps, pc, txvars, nftvars, probe>>

(***************************************************************************)
(* The index as a state machine: every public mutator is one action.       *)
(***************************************************************************)
NoDelete == [kind |-> "none", txs |-> {}, block |-> 0, pre |-> EmptyDb, n |-> 0]
NoSnap == [h |-> 0, rows |-> EmptyDb]

\* inputs of the sub-record operations
Vouts == {1}
PropertyIds == {1}
Amounts == {1}
Buyers == {"A"}
Sellers == {"B"}
SubRecordNumbers == {1, 2}
\* the `block` argument of deleteTransactions
DeleteBlocks == {1, 2}

\* the sub-record operations with the calls kept: per txid the payments in
\* the order of the calls, per cancelled txid its last canceller, and the
\* last call with the rows before it
PaymentLegs ==
    {<<1, "A", "B", 1, 1>>, <<2, "B", "A", 2, 2>>}
SendAllLegs == {<<1, 1>>, <<2, 2>>}
SubTxids == {1, 2}
CancelledTxids == {3}
CancelLegs == {<<1, 1>>, <<2, 2>>}
\* type and nValue of the recordTX calls
TxLegs == {<<0, 1>>, <<1, 2>>}
NoCall == [op |-> "none", txid |-> NullTxid, num |-> 0, block |-> 0,
           value |-> <<>>, pre |-> EmptyDb]
NoCalls == [payments |-> [t \in Txids |-> <<>>],
            cancels |-> [t \in Txids |-> <<>>],
            cancellers |-> [t \in Txids |-> NullTxid],
            primary |-> [t \in Txids |-> <<>>],
            last |-> NoCall]

\* what a recording leaves of the bookkeeping of the model
Counted ==
    /\ nOps' = nOps + 1
    /\ lastDelete' = NoDelete
    /\ calls' = [calls EXCEPT !.last = NoCall]
    /\ UNCHANGED <<snap, ckvars, nftvars, probe>>

RecordTXAt(heights) ==
    \E txid \in Txids, fValid \in Validity, nBlock \in heights,
       type \in TxTypes, nValue \in TxValues :
        /\ nOps < MaxOps
        /\ db' = recordTX(db, txid, fValid, nBlock, type, nValue)
        /\ Counted

RecordPaymentTXAt(heights) ==
    \E txid \in Txids, fValid \in Validity, nBlock \in heights, vout \in Vouts,
       propertyId \in PropertyIds, nValue \in Amounts, buyer \in Buyers,
       seller \in Sellers :
        /\ nOps < MaxOps
        /\ db' = recordPaymentTX(db, txid, fValid, nBlock, vout, propertyId,
                                 nValue, buyer, seller)
        /\ Counted

RecordMetaDExCancelTXAt(heights) ==
    \E txid \in Txids, txidSub \in Txids, fValid \in {1},
       nBlock \in heights, propertyId \in PropertyIds, nValue \in Amounts :
        /\ nOps < MaxOps
        /\ txidSub # txid
        /\ db' = recordMetaDExCancelTX(db, txid, txidSub, fValid, nBlock,
                                       propertyId, nValue)
        /\ Counted

RecordSendAllSubRecordAt(heights) ==
    \E txid \in Txids, nBlock \in heights, subRecordNumber \in SubRecordNumbers,
       propertyId \in PropertyIds, nValue \in Amounts :
        /\ nOps < MaxOps
        /\ db' = recordSendAllSubRecord(db, txid, nBlock, subRecordNumber,
                                        propertyId, nValue)
        /\ Counted

\* the rows a stop of the node inside a record* call leaves behind: the
\* Writes made before it.  The block-index row alone is what recordTX has
\* written after line 773, recordPaymentTX after line 824 and
\* recordMetaDExCancelTX after line 881; block-index row and reverse link
\* is recordMetaDExCancelTX after line 883; the sub-record alone is
\* recordSendAllSubRecord after line 917
TornRows(d, txid, txidSub, nBlock, subRecordNumber, propertyId, nValue) ==
    {Write(d, CBlockTxKey(nBlock, txid), ""),
     Write(Write(d, CBlockTxKey(nBlock, txid), ""), CDexTxToCancelKey(txidSub), txid),
     Write(d, CSendAllTxKey(txid, subRecordNumber), <<propertyId, nValue>>)}

CrashInRecording ==
    \E txid \in Txids, txidSub \in Txids, nBlock \in Heights,
       subRecordNumber \in SubRecordNumbers, propertyId \in PropertyIds,
       nValue \in Amounts :
        /\ nOps < MaxOps
        /\ txidSub # txid
        /\ db' \in TornRows(db, txid, txidSub, nBlock, subRecordNumber, propertyId,
                            nValue)
        /\ Counted

\* the ranges of token ids of the grants
GrantRanges == {<<1, 2>>, <<3, 3>>}

RecordGrant ==
    \E txid \in Txids, range \in GrantRanges :
        /\ nOps < MaxOps
        /\ db' = RecordNonFungibleGrant(db, txid, range[1], range[2])
        /\ Counted

RecordTX == RecordTXAt(Heights)
RecordPaymentTX == RecordPaymentTXAt(Heights)
RecordMetaDExCancelTX == RecordMetaDExCancelTXAt(Heights)
RecordSendAllSubRecord == RecordSendAllSubRecordAt(Heights)

Logged(log) ==
    /\ nOps' = nOps + 1
    /\ lastDelete' = NoDelete
    /\ calls' = log
    /\ UNCHANGED <<snap, ckvars, nftvars, probe>>

PurchaseTX ==
    \E txid \in SubTxids, fValid \in Validity, nBlock \in Heights,
       leg \in PaymentLegs :
        /\ nOps < MaxOps
        /\ db' = recordPaymentTX(db, txid, fValid, nBlock, leg[1], leg[4], leg[5],
                                 leg[2], leg[3])
        /\ Logged([calls EXCEPT !.payments[txid] = Append(@, leg),
                                !.last = [op |-> "payment", txid |-> txid,
                                          num |-> 0, block |-> nBlock,
                                          value |-> leg, pre |-> db]])

\* recordTX with the call kept: per txid the arguments of its last call,
\* and in num how many times in a row the same call has now been made
PrimaryTX ==
    \E txid \in SubTxids, fValid \in Validity, nBlock \in Heights,
       leg \in TxLegs :
        /\ nOps < MaxOps
        /\ db' = recordTX(db, txid, fValid, nBlock, leg[1], leg[2])
        /\ Logged([calls EXCEPT
                      !.primary[txid] = <<fValid, nBlock, leg[1], leg[2]>>,
                      !.last = [op |-> "tx", txid |-> txid,
                                num |-> IF /\ calls.last.op = "tx"
                                           /\ calls.last.txid = txid
                                           /\ calls.last.block = nBlock
                                           /\ calls.last.value =
                                                  <<fValid, leg[1], leg[2]>>
                                        THEN calls.last.num + 1 ELSE 1,
                                block |-> nBlock,
                                value |-> <<fValid, leg[1], leg[2]>>,
                                pre |-> db]])

SendAllTX ==
    \E txid \in SubTxids, nBlock \in {1}, subRecordNumber \in SubRecordNumbers,
       leg \in SendAllLegs :
        /\ nOps < MaxOps
        /\ db' = recordSendAllSubRecord(db, txid, nBlock, subRecordNumber, leg[1],
                                        leg[2])
        /\ Logged([calls EXCEPT !.last = [op |-> "sendall", txid |-> txid,
                                          num |-> subRecordNumber,
                                          block |-> nBlock, value |-> leg,
                                          pre |-> db]])

CancelTX ==
    \E txid \in SubTxids, txidSub \in CancelledTxids, fValid \in Validity,
       nBlock \in {1}, leg \in CancelLegs :
        /\ nOps < MaxOps
        /\ db' = recordMetaDExCancelTX(db, txid, txidSub, fValid, nBlock, leg[1],
                                       leg[2])
        /\ Logged([calls EXCEPT !.cancellers[txidSub] = txid,
                                !.cancels[txid] = Append(@, leg),
                                !.last = [op |-> "cancel", txid |-> txid,
                                          num |-> txidSub, block |-> nBlock,
                                          value |-> leg, pre |-> db]])

DeleteTransactions ==
    \E txs \in SUBSET Txids, block \in DeleteBlocks :
        /\ nOps < MaxOps
        /\ db' = deleteTransactions(db, txs, block)
        /\ nOps' = nOps + 1
        /\ lastDelete' = [kind |-> "delete", txs |-> txs, block |-> block,
                          pre |-> db, n |-> 1]
        /\ UNCHANGED <<snap, calls, ckvars, nftvars, probe>>

(***************************************************************************)
(* The index of non-fungible token ranges (CMPNonFungibleTokensDB).  A row *)
(* is keyed by storage class, asset and the inclusive range of token ids;  *)
(* its value is the owner of the range or the data set on it.  The store   *)
(* is the rows, the undo cache of the block being processed (blockData)    *)
(* and the durable undo entries, one per finalized block.                  *)
(***************************************************************************)
RangeIndex == "R"
GrantData == "G"
DELETE_KEY == 0
PERSIST_KEY == 1

\* the most token ids an asset is given, the most finalized blocks, the most
\* operations on the ranges
MaxTokenId == 3
MaxNftBlocks == 2
MaxNftOps == 3

NftProperties == {1}
NftOwners == {"A", "B"}
NftData == {"d"}
TokenIds == 1..MaxTokenId
NoRange == <<0, 0>>

RangeKey(type, propertyId, tokenIdStart, tokenIdEnd) ==
    <<type, propertyId, tokenIdStart, tokenIdEnd>>

EmptyNftDb == [rows |-> EmptyDb, blockData |-> EmptyDb, undo |-> EmptyDb]

\* the greatest element of a non-empty set of integers
Max(S) == CHOOSE x \in S : \A y \in S : x >= y

\* the first time a key is touched in a block its state before the block is
\* kept: its value if the row exists, else the mark that it did not exist
RollbackDataOf(rows, key) ==
    IF key \in DOMAIN rows THEN [type |-> PERSIST_KEY, data |-> rows[key]]
    ELSE [type |-> DELETE_KEY, data |-> ""]

\* as StoreBlockCache, but the entry of a key touched before is overwritten
StoreBlockCacheAlways(d, key) ==
    [d EXCEPT !.blockData = Write(@, key, RollbackDataOf(d.rows, key))]

StoreBlockCache(d, key) ==
    IF key \in DOMAIN d.blockData THEN d
    ELSE [d EXCEPT !.blockData = Write(@, key, RollbackDataOf(d.rows, key))]

DeleteStaged(d, key) == [d EXCEPT !.rows = WriteBatch(@, {key})]

DeleteRange(d, propertyId, tokenIdStart, tokenIdEnd, type) ==
    DeleteStaged(StoreBlockCache(d, RangeKey(type, propertyId, tokenIdStart, tokenIdEnd)),
                 RangeKey(type, propertyId, tokenIdStart, tokenIdEnd))

AddStaged(d, key, owner) == [d EXCEPT !.rows = Write(@, key, owner)]

AddRange(d, propertyId, tokenIdStart, tokenIdEnd, owner, type) ==
    AddStaged(StoreBlockCache(d, RangeKey(type, propertyId, tokenIdStart, tokenIdEnd)),
              RangeKey(type, propertyId, tokenIdStart, tokenIdEnd), owner)

\* the rows of one storage class of one asset
RangesOf(rows, propertyId, type) ==
    {k \in DOMAIN rows : k[1] = type /\ k[2] = propertyId}

GetHighestRangeEnd(d, propertyId) ==
    IF RangesOf(d.rows, propertyId, RangeIndex) = {} THEN 0
    ELSE Max({k[4] : k \in RangesOf(d.rows, propertyId, RangeIndex)})

\* the rows of the class whose range holds the token id
RangesHolding(rows, propertyId, tokenId, type) ==
    {k \in RangesOf(rows, propertyId, type) : k[3] <= tokenId /\ tokenId <= k[4]}

FirstHolding(S) == CHOOSE k \in S : \A o \in S : <<k[3], k[4]>> = <<o[3], o[4]>> \/ k[3] < o[3] \/ (k[3] = o[3] /\ k[4] < o[4])

GetRange(d, propertyId, tokenId, type) ==
    IF RangesHolding(d.rows, propertyId, tokenId, type) = {} THEN NoRange
    ELSE <<FirstHolding(RangesHolding(d.rows, propertyId, tokenId, type))[3],
           FirstHolding(RangesHolding(d.rows, propertyId, tokenId, type))[4]>>

GetNonFungibleTokenValue(d, propertyId, tokenId, type) ==
    IF RangesHolding(d.rows, propertyId, tokenId, type) = {} THEN ""
    ELSE d.rows[FirstHolding(RangesHolding(d.rows, propertyId, tokenId, type))]

NftResult(ok, range, d) == [ok |-> ok, range |-> range, db |-> d]

\* as CreateNonFungibleTokens, but the new range starts at the highest end
CreateFromHighestEnd(d, propertyId, amount, owner, info) ==
    IF amount <= 0 THEN NftResult(FALSE, NoRange, d)
    ELSE NftResult(TRUE,
                   <<GetHighestRangeEnd(d, propertyId),
                     GetHighestRangeEnd(d, propertyId) + amount>>,
                   AddRange(d, propertyId, GetHighestRangeEnd(d, propertyId),
                            GetHighestRangeEnd(d, propertyId) + amount, owner,
                            RangeIndex))

CreateNonFungibleTokens(d, propertyId, amount, owner, info) ==
    IF amount <= 0 THEN NftResult(FALSE, NoRange, d)
    ELSE NftResult(TRUE,
                   <<GetHighestRangeEnd(d, propertyId) + 1,
                     GetHighestRangeEnd(d, propertyId) + amount>>,
                   AddRange(d, propertyId, GetHighestRangeEnd(d, propertyId) + 1,
                            GetHighestRangeEnd(d, propertyId) + amount, owner,
                            RangeIndex))

\* the piece before the moved one stays with the value of the range
AddBefore(d, propertyId, range, tokenIdStart, value, type) ==
    IF range[1] < tokenIdStart
    THEN AddRange(d, propertyId, range[1], tokenIdStart - 1, value, type)
    ELSE d

\* the piece after the moved one stays with the value of the range
AddAfter(d, propertyId, range, tokenIdEnd, value, type) ==
    IF tokenIdEnd < range[2]
    THEN AddRange(d, propertyId, tokenIdEnd + 1, range[2], value, type)
    ELSE d

\* as SplitRange, but the piece after the moved one is not written
SplitRangeNoAfter(d, propertyId, range, tokenIdStart, tokenIdEnd, old, new, type) ==
    AddRange(AddBefore(DeleteRange(d, propertyId, range[1], range[2], type),
                       propertyId, range, tokenIdStart, old, type),
             propertyId, tokenIdStart, tokenIdEnd, new, type)

\* the range is deleted and written again in up to three pieces: before,
\* moved, after
SplitRange(d, propertyId, range, tokenIdStart, tokenIdEnd, old, new, type) ==
    AddAfter(AddRange(AddBefore(DeleteRange(d, propertyId, range[1], range[2], type),
                                propertyId, range, tokenIdStart, old, type),
                      propertyId, tokenIdStart, tokenIdEnd, new, type),
             propertyId, range, tokenIdEnd, old, type)

\* as InsideRange, but the end of the moved range is not looked at
InsideRangeStartOnly(range, tokenIdStart, tokenIdEnd) ==
    /\ range # NoRange
    /\ tokenIdStart <= tokenIdEnd
    /\ range[1] <= tokenIdStart

\* [tokenIdStart, tokenIdEnd] lies inside the one range
InsideRange(range, tokenIdStart, tokenIdEnd) ==
    /\ range # NoRange
    /\ tokenIdStart <= tokenIdEnd
    /\ range[1] <= tokenIdStart
    /\ tokenIdEnd <= range[2]

MoveNonFungibleTokens(d, propertyId, tokenIdStart, tokenIdEnd, from, to) ==
    IF /\ InsideRange(GetRange(d, propertyId, tokenIdStart, RangeIndex),
                      tokenIdStart, tokenIdEnd)
       /\ GetNonFungibleTokenValue(d, propertyId, tokenIdStart, RangeIndex) = from
    THEN NftResult(TRUE, GetRange(d, propertyId, tokenIdStart, RangeIndex),
                   SplitRange(d, propertyId,
                              GetRange(d, propertyId, tokenIdStart, RangeIndex),
                              tokenIdStart, tokenIdEnd, from, to, RangeIndex))
    ELSE NftResult(FALSE, NoRange, d)

ChangeNonFungibleTokenData(d, propertyId, tokenIdStart, tokenIdEnd, data, type) ==
    IF InsideRange(GetRange(d, propertyId, tokenIdStart, type), tokenIdStart, tokenIdEnd)
    THEN NftResult(TRUE, GetRange(d, propertyId, tokenIdStart, type),
                   SplitRange(d, propertyId,
                              GetRange(d, propertyId, tokenIdStart, type),
                              tokenIdStart, tokenIdEnd,
                              GetNonFungibleTokenValue(d, propertyId, tokenIdStart, type),
                              data, type))
    ELSE NftResult(FALSE, NoRange, d)

WriteBlockCache(d, height) ==
    [d EXCEPT !.undo = Write(@, height, d.blockData), !.blockData = EmptyDb]

\* one undo entry played back: a row kept with PERSIST_KEY gets its value
\* again, a row marked DELETE_KEY is deleted
Replay(rows, entry) ==
    [k \in ((DOMAIN rows) \ {e \in DOMAIN entry : entry[e].type = DELETE_KEY})
            \cup {e \in DOMAIN entry : entry[e].type = PERSIST_KEY} |->
        IF k \in DOMAIN entry THEN entry[k].data ELSE rows[k]]

\* the undo entries above the height played back with the earliest first
RECURSIVE ReplayAboveAscending(_, _, _, _)
ReplayAboveAscending(rows, undo, h, height) ==
    IF h <= height THEN rows
    ELSE IF h \in DOMAIN undo
         THEN Replay(ReplayAboveAscending(rows, undo, h - 1, height), undo[h])
         ELSE ReplayAboveAscending(rows, undo, h - 1, height)

\* the undo entries above the height are played back, the latest first
RECURSIVE ReplayAbove(_, _, _, _)
ReplayAbove(rows, undo, h, height) ==
    IF h <= height THEN rows
    ELSE ReplayAbove(IF h \in DOMAIN undo THEN Replay(rows, undo[h]) ELSE rows,
                     undo, h - 1, height)

Discarded(undo, height) == WriteBatch(undo, {h \in DOMAIN undo : h > height})

\* the height of the latest undo entry, 0 if there is none
HighestUndo(undo) == IF DOMAIN undo = {} THEN 0 ELSE Max(DOMAIN undo)

RollBackAboveBlock(d, height) ==
    [d EXCEPT !.rows = ReplayAbove(d.rows, d.undo, HighestUndo(d.undo), height),
              !.undo = Discarded(d.undo, height)]

(***************************************************************************)
(* The operations on the ranges as the block processing calls them: the    *)
(* operations of a block, WriteBlockCache when the block is finalized, and *)
(* RollBackAboveBlock between two blocks when the chain reorganizes.       *)
(***************************************************************************)
NoNftOp == [op |-> "none", propertyId |-> 0, amount |-> 0, start |-> 0,
            end |-> 0, from |-> "", to |-> "", type |-> "", height |-> 0,
            ok |-> FALSE, range |-> NoRange, before |-> EmptyNftDb,
            origin |-> EmptyDb, back |-> FALSE, again |-> FALSE]

NftOp(res, last) ==
    /\ nNftOps' = nNftOps + 1
    /\ nft' = res.db
    /\ nftLast' = [last EXCEPT !.ok = res.ok, !.range = res.range, !.before = nft]
    /\ UNCHANGED <<nftBlock, nftSnap, txvars, ckvars, probe>>

CreateRange ==
    \E propertyId \in NftProperties, amount \in -1..MaxTokenId,
       owner \in NftOwners :
        /\ nNftOps < MaxNftOps
        /\ GetHighestRangeEnd(nft, propertyId) + amount <= MaxTokenId
        /\ NftOp(CreateNonFungibleTokens(nft, propertyId, amount, owner, ""),
                 [NoNftOp EXCEPT !.op = "create", !.propertyId = propertyId,
                                 !.amount = amount, !.to = owner])

\* the move that undoes the last one: same asset and range, owners swapped
MovesBack(propertyId, start, end, from, to) ==
    /\ nftLast.op = "move"
    /\ nftLast.ok
    /\ nftLast.propertyId = propertyId
    /\ nftLast.start = start
    /\ nftLast.end = end
    /\ nftLast.from = to
    /\ nftLast.to = from

MoveTokens ==
    \E propertyId \in NftProperties, start \in TokenIds, end \in TokenIds,
       from \in NftOwners, to \in NftOwners :
        /\ nNftOps < MaxNftOps
        /\ NftOp(MoveNonFungibleTokens(nft, propertyId, start, end, from, to),
                 [NoNftOp EXCEPT !.op = "move", !.propertyId = propertyId,
                                 !.start = start, !.end = end, !.from = from,
                                 !.to = to,
                                 !.back = MovesBack(propertyId, start, end, from, to),
                                 !.origin = IF MovesBack(propertyId, start, end, from, to)
                                            THEN nftLast.before.rows ELSE EmptyDb])

AddGrantData ==
    \E propertyId \in NftProperties, start \in TokenIds, end \in TokenIds,
       data \in NftData :
        /\ nNftOps < MaxNftOps
        /\ start <= end
        /\ \A id \in start..end : GetRange(nft, propertyId, id, GrantData) = NoRange
        /\ NftOp(NftResult(TRUE, <<start, end>>,
                           AddRange(nft, propertyId, start, end, data, GrantData)),
                 [NoNftOp EXCEPT !.op = "add", !.propertyId = propertyId,
                                 !.start = start, !.end = end, !.to = data,
                                 !.type = GrantData])

ChangeTokenData ==
    \E propertyId \in NftProperties, start \in TokenIds, end \in TokenIds,
       data \in NftData \cup {"e"} :
        /\ nNftOps < MaxNftOps
        /\ NftOp(ChangeNonFungibleTokenData(nft, propertyId, start, end, data,
                                             GrantData),
                 [NoNftOp EXCEPT !.op = "change", !.propertyId = propertyId,
                                 !.start = start, !.end = end, !.to = data,
                                 !.type = GrantData])

FinalizeBlock ==
    /\ nftBlock <= MaxNftBlocks
    /\ nft' = WriteBlockCache(nft, nftBlock)
    /\ nftBlock' = nftBlock + 1
    /\ nftSnap' = Write(nftSnap, nftBlock, nft.rows)
    /\ nftLast' = [NoNftOp EXCEPT !.op = "write", !.height = nftBlock, !.ok = TRUE,
                                  !.before = nft]
    /\ UNCHANGED <<nNftOps, txvars, ckvars, probe>>

Reorganize ==
    \E height \in 0..(nftBlock - 1) :
        /\ nft.blockData = EmptyDb
        /\ nft' = RollBackAboveBlock(nft, height)
        /\ nftBlock' = height + 1
        /\ nftSnap' = WriteBatch(nftSnap, {h \in DOMAIN nftSnap : h > height})
        /\ nftLast' = [NoNftOp EXCEPT !.op = "rollback", !.height = height,
                                      !.ok = TRUE, !.before = nft,
                                      !.again = (nftLast.op = "rollback"
                                                 /\ nftLast.height = height)]
        /\ UNCHANGED <<nNftOps, txvars, ckvars, probe>>

NftInit ==
    /\ nft = EmptyNftDb
    /\ nftBlock = 1
    /\ nNftOps = 0
    /\ nftSnap = Write(EmptyDb, 0, EmptyDb)
    /\ nftLast = NoNftOp

TxInit ==
    /\ db = EmptyDb
    /\ nOps = 0
    /\ lastDelete = NoDelete
    /\ snap = NoSnap
    /\ calls = NoCalls

Init == TxInit /\ CkInit /\ NftInit /\ probe = NoProbe

Next ==
    \/ RecordTX
    \/ RecordPaymentTX
    \/ RecordMetaDExCancelTX
    \/ RecordSendAllSubRecord
    \/ DeleteTransactions

vars == <<txvars, ckvars, nftvars, probe>>

Spec == Init /\ [][Next]_vars

(***************************************************************************)
(* Cancels and deletions alone.                                            *)
(***************************************************************************)
CancelNext ==
    \/ RecordMetaDExCancelTX
    \/ DeleteTransactions

SpecCancel == Init /\ [][CancelNext]_vars

(***************************************************************************)
(* Block processing with reorganisations: the operations of a block carry  *)
(* its height, and a rollback to height H deletes what the block index     *)
(* lists above H, as the reorganisation handler does.                      *)
(***************************************************************************)
TopBlock == CHOOSE h \in Heights : \A g \in Heights : g <= h
AboveSnap == {h \in Heights : h > snap.h}

\* block h is finished: nothing of a later block has been recorded yet
FinishBlock ==
    \E h \in AboveSnap \ {TopBlock} :
        /\ \A k \in SchemaKeys(db, "b") : k[2] <= h
        /\ snap' = [h |-> h, rows |-> db]
        /\ lastDelete' = NoDelete
        /\ UNCHANGED <<db, nOps, calls, ckvars, nftvars, probe>>

RollBack ==
    LET txs == GetOmniTxsInBlockRange(db, snap.h + 1, TopBlock, {})
    IN  /\ nOps < MaxOps
        /\ db' = deleteTransactions(db, txs, snap.h + 1)
        /\ nOps' = nOps + 1
        /\ lastDelete' = [kind |-> "rollback", txs |-> txs, block |-> snap.h + 1,
                          pre |-> db,
                          n |-> IF lastDelete.kind = "rollback" THEN 2 ELSE 1]
        /\ UNCHANGED <<snap, calls, ckvars, nftvars, probe>>

RollbackNext ==
    \/ RecordTXAt(AboveSnap)
    \/ RecordPaymentTXAt(AboveSnap)
    \/ RecordMetaDExCancelTXAt(AboveSnap)
    \/ RecordSendAllSubRecordAt(AboveSnap)
    \/ FinishBlock
    \/ RollBack

SpecRollback == Init /\ [][RollbackNext]_vars

(***************************************************************************)
(* Checkpoints of the tables in memory, and their damage.                  *)
(***************************************************************************)
CkptNext ==
    \/ UpdateTally
    \/ DExSell
    \/ DExAccept
    \/ CreateProperty
    \/ CreateCrowdsale
    \/ MetaDExTrade
    \/ PersistInMemoryState
    \/ Load

SpecCkpt == Init /\ [][CkptNext]_vars

\* checkpoints and loads over tables that changed since the checkpoint
RestoreNext ==
    \/ UpdateTally
    \/ DExSell
    \/ DExAccept
    \/ CreateCrowdsale
    \/ MetaDExTrade
    \/ PersistInMemoryState
    \/ LoadOverMemory

SpecRestore == Init /\ [][RestoreNext]_vars

\* payment and send-all sub-records of the same transactions
NumbersNext ==
    \/ PurchaseTX
    \/ SendAllTX

SpecNumbers == Init /\ [][NumbersNext]_vars

CorruptNext ==
    \/ CkptNext
    \/ CorruptByte
    \/ TruncateFile
    \/ DropLine
    \/ RemoveFile

SpecCorrupt == Init /\ [][CorruptNext]_vars

(***************************************************************************)
(* Checkpoints with files that cannot be opened.                           *)
(***************************************************************************)
FailNext ==
    \/ UpdateTally
    \/ DExSell
    \/ PersistInMemoryState
    \/ PersistWithFailure
    \/ Load

SpecFail == Init /\ [][FailNext]_vars

(***************************************************************************)
(* Checkpoints written statement by statement, with stops of the node.     *)
(***************************************************************************)
CrashNext ==
    \/ UpdateTally
    \/ DExSell
    \/ StartPersist
    \/ WriteStep
    \/ PruneStep
    \/ WatermarkStep
    \/ Crash
    \/ Load

SpecCrash == Init /\ [][CrashNext]_vars

(***************************************************************************)
(* The token ranges over blocks and reorganisations.                       *)
(***************************************************************************)
NftNext ==
    \/ CreateRange
    \/ MoveTokens
    \/ AddGrantData
    \/ ChangeTokenData
    \/ FinalizeBlock
    \/ Reorganize

SpecNft == Init /\ [][NftNext]_vars

(***************************************************************************)
(* Sub-records of transactions: recordings alone, nothing deleted.         *)
(***************************************************************************)
SubNext ==
    \/ RecordTX
    \/ PurchaseTX
    \/ SendAllTX
    \/ CancelTX

SpecSub == Init /\ [][SubNext]_vars

(***************************************************************************)
(* IsPersistenceEnabled, asked for one height at a time.                   *)
(***************************************************************************)
\* the intervals STORE_EVERY_N_BLOCK_IDB and STORE_EVERY_N_BLOCK, scaled down
STORE_EVERY_N_BLOCK_IDB == 2
STORE_EVERY_N_BLOCK == 3
\* the heights asked for, and the values of -omniskipstoringstate
MaxProbedHeight == 12
ProbedHeights == 0..MaxProbedHeight
MinHeights == 0..3

\* as IsPersistenceEnabled, but the minimum height itself is let through
IsPersistenceEnabledFromMinimum(blockHeight, nMinHeight, fInitialBlockDownload) ==
    /\ blockHeight >= nMinHeight
    /\ blockHeight % (IF fInitialBlockDownload THEN STORE_EVERY_N_BLOCK_IDB
                      ELSE STORE_EVERY_N_BLOCK) = 0

\* nMinHeight is what GetWrapModeHeight returns, fInitialBlockDownload what
\* IsInitialBlockDownload returns
IsPersistenceEnabled(blockHeight, nMinHeight, fInitialBlockDownload) ==
    /\ blockHeight > nMinHeight
    /\ blockHeight % (IF fInitialBlockDownload THEN STORE_EVERY_N_BLOCK_IDB
                      ELSE STORE_EVERY_N_BLOCK) = 0

CheckPersistence ==
    \E blockHeight \in ProbedHeights, nMinHeight \in MinHeights,
       fInitialBlockDownload \in BOOLEAN :
        /\ probe' = [op |-> "IsPersistenceEnabled", blockHeight |-> blockHeight,
                     nMinHeight |-> nMinHeight, ibd |-> fInitialBlockDownload,
                     result |-> IsPersistenceEnabled(blockHeight, nMinHeight,
                                                     fInitialBlockDownload)]
        /\ UNCHANGED <<txvars, ckvars, nftvars>>

\* two keys of one schema and their bytes
ProbedBlocks == {0, 1, 255, 256, 65536}
ProbedNumbers == {1, 2, 256, 65535}
ProbedKeys ==
    {CBlockTxKey(block, txid) : block \in ProbedBlocks, txid \in {1, 2}}
        \cup {CPaymentTxKey(txid, payments, block, valid) :
                 txid \in {1, 2}, payments \in ProbedNumbers, block \in {1, 100},
                 valid \in Validity}

EncodeKeys ==
    \E a \in ProbedKeys, b \in ProbedKeys :
        /\ a[1] = b[1]
        /\ probe' = [op |-> "EncodeKey", a |-> a, b |-> b,
                     bytesA |-> EncodeKey(a), bytesB |-> EncodeKey(b)]
        /\ UNCHANGED <<txvars, ckvars, nftvars>>

CodecNext ==
    \/ EncodeKeys

SpecCodec == Init /\ [][CodecNext]_vars

DueNext ==
    \/ CheckPersistence

SpecDue == Init /\ [][DueNext]_vars

(***************************************************************************)
(* Recordings and stops of the node inside a recording, nothing deleted.   *)
(***************************************************************************)
TornNext ==
    \/ RecordTX
    \/ RecordPaymentTX
    \/ RecordMetaDExCancelTX
    \/ RecordSendAllSubRecord
    \/ CrashInRecording

SpecTorn == Init /\ [][TornNext]_vars

(***************************************************************************)
(* Rows of every schema in one block, for the lookups by partial key.      *)
(***************************************************************************)
LookupNext ==
    \/ RecordTXAt({1})
    \/ RecordPaymentTXAt({1})
    \/ RecordMetaDExCancelTXAt({1})
    \/ RecordSendAllSubRecordAt({1})

SpecLookup == Init /\ [][LookupNext]_vars

(***************************************************************************)
(* Grants of non-fungible tokens, primary records and deletions.           *)
(***************************************************************************)
GrantNext ==
    \/ RecordTXAt(Heights)
    \/ RecordGrant
    \/ DeleteTransactions

SpecGrant == Init /\ [][GrantNext]_vars

(***************************************************************************)
(* Primary records and payments of two blocks, nothing deleted.            *)
(***************************************************************************)
PaidNext ==
    \/ RecordTXAt(Heights)
    \/ RecordPaymentTXAt(Heights)

SpecPaid == Init /\ [][PaidNext]_vars

(***************************************************************************)
(* Primary records: recordings alone, nothing deleted.                     *)
(***************************************************************************)
PrimaryNext ==
    \/ PrimaryTX

SpecPrimary == Init /\ [][PrimaryNext]_vars

(***************************************************************************)
(* Claims about deleteTransactions.                                        *)
(***************************************************************************)
Deleted == lastDelete.kind = "delete"
SubSchemas == {"t", "p", "c", "s"}

\* C1: a rollback to height H (deleteTransactions of the transactions the
\* block index lists above H) leaves exactly the rows the index held when
\* block H was finished, and so does a second rollback right after it.
C1_RollbackRestoresSnapshot ==
    lastDelete.kind = "rollback" => db = snap.rows

\* C2: after deleteTransactions(txs, block) no primary record, payment
\* sub-record, cancel sub-record or send-all sub-record of a txid in txs is
\* left, also when the txid owns rows of several of these schemas.
C2_NoRowOfDeletedTxRemains ==
    Deleted =>
        \A txid \in lastDelete.txs : \A prefix \in SubSchemas :
            PartialKey(db, prefix, txid) = {}

\* C3: deleteTransactions(txs, block) removes exactly the block-index rows of
\* height >= block, whatever txs is: none of them is left and every
\* block-index row of a lower height is still there.
C3_BlockRowsRemovedFromBlock ==
    Deleted =>
        SchemaKeys(db, "b") =
            {k \in SchemaKeys(lastDelete.pre, "b") : k[2] < lastDelete.block}

C3_Witness ==
    /\ Deleted
    /\ lastDelete.txs = {}
    /\ \E k \in SchemaKeys(lastDelete.pre, "b") : k[2] >= lastDelete.block
    /\ \E k \in SchemaKeys(db, "b") : k[2] < lastDelete.block

\* C4: every reverse link cancelledTxid -> c in the store has at least one
\* cancel sub-record of c in the store.
C4_NoDanglingReverseLink ==
    \A k \in SchemaKeys(db, "e") : PartialKey(db, "c", db[k]) # {}

RemovedLinks == SchemaKeys(lastDelete.pre, "e") \ DOMAIN db

Loaded == ret.kind # "none"
\* the load followed a checkpoint with nothing in between
LoadedCheckpoint == Loaded /\ ret.since = "persisted"

\* C6 as stated: PersistInMemoryState(b) followed by
\* LoadMostRelevantInMemoryState with no change in between returns the
\* height of b and leaves every table in memory with exactly the content it
\* had when the checkpoint was written.
C6_RoundTripExact ==
    LoadedCheckpoint =>
        /\ ret.kind = "height" /\ ret.block = track.block.height
        /\ mem = track.mem

\* the balances without the properties whose four amounts are zero and
\* without the addresses that have no other property
NonZeroTally(tally) == [q \in {p \in DOMAIN tally : tally[p] # NoMoney} |-> tally[q]]
NonZeroBalances(tallyMap) ==
    [a \in {b \in DOMAIN tallyMap : DOMAIN NonZeroTally(tallyMap[b]) # {}} |->
        NonZeroTally(tallyMap[a])]

\* C6 as amended: the load returns the height of b and leaves the sell offers,
\* accepts, globals, crowdsales and MetaDEx orders exactly as they were, and
\* the balances as they were except that a property whose four amounts are
\* all zero, and an address with no other property, is no longer there.
C6_RoundTripNonZero ==
    LoadedCheckpoint =>
        /\ ret.kind = "height" /\ ret.block = track.block.height
        /\ mem = [track.mem EXCEPT !.mp_tally_map = NonZeroBalances(@)]

C6_Witness ==
    /\ LoadedCheckpoint
    /\ ret.kind = "height"
    /\ mem # track.mem
    /\ \/ mem.mp_tally_map # <<>>
       \/ mem.my_offers # <<>>
       \/ mem.my_crowds # <<>>
       \/ mem.metadex # {}

\* C7: after one byte of the data region of a state file named by the
\* watermark was changed to another byte, LoadMostRelevantInMemoryState
\* returns -1.
C7_CorruptionReturnsFailure ==
    (Loaded /\ ret.since = "byte") => ret.kind = "fail"

\* the file name of table what under the watermark
WatermarkFile(what) == FileName(what, watermark.hash)
\* the lines of a file that are data: not empty, no comment, no sentinel
IsDataLine(raw) ==
    /\ raw # <<>> /\ raw[1] # "#"
    /\ RemoveCR(raw) = <<>> \/ RemoveCR(raw)[1] # "!"
IsSentinelLine(raw) ==
    raw # <<>> /\ raw[1] # "#" /\ RemoveCR(raw) # <<>> /\ RemoveCR(raw)[1] = "!"
\* the digest recomputed over the data lines equals the one of the sentinel
ValidSnapshot(file) ==
    LET lines == Lines(file.bytes)
        data == SelectSeq(lines, IsDataLine)
        sentinels == SelectSeq(lines, IsSentinelLine)
    IN  /\ sentinels # <<>>
        /\ RemoveCR(sentinels[Len(sentinels)]) = <<"!", DigestSymbol>>
        /\ file.digest = Hashed([i \in 1..Len(data) |-> RemoveCR(data[i])])

C9_LoadStopsAtFirstFailure ==
    Loaded =>
        IF ~watermark.set
        THEN ret.kind = "fail" /\ ret.results = <<>>
        ELSE /\ ret.kind \in {"height", "fail"}
             /\ \A i \in 1..(Len(ret.results) - 1) : ret.results[i] = "ok"
             /\ ret.kind = "height" =>
                    /\ Len(ret.results) = NUM_FILETYPES
                    /\ ret.results[NUM_FILETYPES] = "ok"
                    /\ ret.block = watermark.block
             /\ ret.kind = "fail" =>
                    /\ ret.results # <<>>
                    /\ ret.results[Len(ret.results)] = "fail"

\* the six files of the checkpoint of a block
CheckpointFiles(block) == {FileName(what, block.hash) : what \in FileTypes}

\* C10: after PersistInMemoryState(b) the state files in the directory are
\* exactly the six files of b: pruning removed no file of b and every file
\* of every other block hash.
C10_OnlyActiveCheckpointRemains ==
    track.since = "persisted" => DOMAIN files = CheckpointFiles(track.block)

C10_Witness ==
    /\ track.since = "persisted"
    /\ Cardinality(track.removed) = NUM_FILETYPES
    /\ track.removed \cap CheckpointFiles(track.block) = {}

\* a file as write_state_file leaves it: it ends with the sentinel line
CompleteFile(file) ==
    /\ Len(file.bytes) >= Len(SentinelLine)
    /\ SubSeq(file.bytes, Len(file.bytes) - Len(SentinelLine) + 1, Len(file.bytes))
           = SentinelLine

\* C11: whenever a watermark is set, also in the middle of
\* PersistInMemoryState and after a stop of the node between two of its
\* statements, the six state files the watermark names exist and are
\* complete with their sentinel line.
C11_WatermarkNamesCheckpoint ==
    watermark.set =>
        \A what \in FileTypes :
            /\ WatermarkFile(what) \in DOMAIN files
            /\ CompleteFile(files[WatermarkFile(what)])

(***************************************************************************)
(* Claims about the index of token ranges.                                 *)
(***************************************************************************)
\* the ownership ranges of an asset, as pairs of first and last token id
OwnershipRanges(rows, propertyId) ==
    {<<k[3], k[4]>> : k \in RangesOf(rows, propertyId, RangeIndex)}

PairwiseDisjoint(ranges) ==
    \A r \in ranges, o \in ranges : r = o \/ r[2] < o[1] \/ o[2] < r[1]

HighestEnd(ranges) == IF ranges = {} THEN 0 ELSE Max({r[2] : r \in ranges})

\* every token id from 1 to the highest range end is in a range, and every
\* range is a non-empty interval of ids from 1 on
CoversFromOne(ranges) ==
    /\ \A r \in ranges : 1 <= r[1] /\ r[1] <= r[2]
    /\ \A id \in 1..HighestEnd(ranges) : \E r \in ranges : r[1] <= id /\ id <= r[2]

\* C12: after any sequence of createRange, moveTokens, changeTokenData,
\* writeBlockCache and rollBackAboveBlock the ownership ranges of every asset
\* are pairwise non-overlapping and their union is exactly
\* [1, highestRangeEnd], without gaps.
C12_RangeInvariant ==
    \A propertyId \in NftProperties :
        /\ PairwiseDisjoint(OwnershipRanges(nft.rows, propertyId))
        /\ CoversFromOne(OwnershipRanges(nft.rows, propertyId))
        /\ HighestEnd(OwnershipRanges(nft.rows, propertyId))
               = GetHighestRangeEnd(nft, propertyId)

\* a range was split in three and a reorganisation has since taken rows back
C12_Witness ==
    /\ nftLast.op = "rollback"
    /\ nftLast.before.rows # nft.rows
    /\ \E propertyId \in NftProperties :
           Cardinality(OwnershipRanges(nftLast.before.rows, propertyId)) = 3

\* the keys two undo entries above the height both hold: rows touched in
\* more than one of the blocks taken back
TouchedAcrossBlocks(undo, height) ==
    {k \in UNION {DOMAIN undo[h] : h \in DOMAIN undo} :
        \E h1 \in DOMAIN undo, h2 \in DOMAIN undo :
            /\ height < h1
            /\ h1 < h2
            /\ k \in DOMAIN undo[h1]
            /\ k \in DOMAIN undo[h2]}

\* C13: RollBackAboveBlock(H) leaves exactly the rows that existed right
\* after block H was finalized, whatever the blocks above H did to them, and
\* a second RollBackAboveBlock(H) right after the first changes nothing.
C13_RollbackRestoresBlock ==
    nftLast.op = "rollback" =>
        /\ nft.rows = nftSnap[nftLast.height]
        /\ nftLast.again => nft = nftLast.before

\* a reorganisation took back two blocks that both touched the same row
C13_Witness ==
    /\ nftLast.op = "rollback"
    /\ nftLast.before.rows # nft.rows
    /\ TouchedAcrossBlocks(nftLast.before.undo, nftLast.height) # {}

\* the ownership rows of the asset that hold all of [start, end] and belong
\* to the owner
OwnedRangesAround(rows, propertyId, start, end, owner) ==
    {k \in RangesOf(rows, propertyId, RangeIndex) :
        k[3] <= start /\ start <= end /\ end <= k[4] /\ rows[k] = owner}

\* the keys of the pieces [a, start-1], [start, end], [end+1, b]
PieceKeys(propertyId, a, b, start, end) ==
    {RangeKey(RangeIndex, propertyId, start, end)}
        \cup (IF a < start THEN {RangeKey(RangeIndex, propertyId, a, start - 1)} ELSE {})
        \cup (IF end < b THEN {RangeKey(RangeIndex, propertyId, end + 1, b)} ELSE {})

\* the rows with [a, b] removed and its pieces written: the moved piece to
\* the new owner, the others to the old one
RowsAfterSplit(rows, propertyId, a, b, start, end, from, to) ==
    [k \in ((DOMAIN rows) \ {RangeKey(RangeIndex, propertyId, a, b)})
            \cup PieceKeys(propertyId, a, b, start, end) |->
        IF k = RangeKey(RangeIndex, propertyId, start, end) THEN to
        ELSE IF k \in PieceKeys(propertyId, a, b, start, end) THEN from
        ELSE rows[k]]

\* getRange and the owner of every token id of [a, b] after the move
LookupsAfterSplit(d, propertyId, a, b, start, end, from, to) ==
    \A id \in a..b :
        /\ id < start =>
               /\ GetRange(d, propertyId, id, RangeIndex) = <<a, start - 1>>
               /\ GetNonFungibleTokenValue(d, propertyId, id, RangeIndex) = from
        /\ (start <= id /\ id <= end) =>
               /\ GetRange(d, propertyId, id, RangeIndex) = <<start, end>>
               /\ GetNonFungibleTokenValue(d, propertyId, id, RangeIndex) = to
        /\ end < id =>
               /\ GetRange(d, propertyId, id, RangeIndex) = <<end + 1, b>>
               /\ GetNonFungibleTokenValue(d, propertyId, id, RangeIndex) = from

OwnerIn(rows, propertyId, tokenId) ==
    GetNonFungibleTokenValue([EmptyNftDb EXCEPT !.rows = rows], propertyId, tokenId,
                             RangeIndex)

\* the last operation moved back to its owner what the operation before it
\* had moved to another one
MovedThereAndBack ==
    nftLast.op = "move" /\ nftLast.back /\ nftLast.from # nftLast.to

C16_CreateAppendsRange ==
    nftLast.op = "create" =>
        IF nftLast.amount > 0
        THEN /\ nftLast.ok
             /\ nftLast.range =
                    <<GetHighestRangeEnd(nftLast.before, nftLast.propertyId) + 1,
                      GetHighestRangeEnd(nftLast.before, nftLast.propertyId)
                          + nftLast.amount>>
             /\ RangeKey(RangeIndex, nftLast.propertyId, nftLast.range[1],
                         nftLast.range[2]) \notin DOMAIN nftLast.before.rows
             /\ nft.rows = Write(nftLast.before.rows,
                                 RangeKey(RangeIndex, nftLast.propertyId,
                                          nftLast.range[1], nftLast.range[2]),
                                 nftLast.to)
        ELSE /\ ~nftLast.ok
             /\ nft.rows = nftLast.before.rows

\* a range was created right after a range of the same owner
C16_Witness ==
    /\ nftLast.op = "create"
    /\ nftLast.ok
    /\ nftLast.range[1] > 1
    /\ OwnerIn(nftLast.before.rows, nftLast.propertyId, nftLast.range[1] - 1)
           = nftLast.to

\* the rows as they were when the block in progress began
RowsAtBlockStart == nftSnap[nftBlock - 1]

\* the keys whose row is not as it was when the block in progress began
TouchedKeys ==
    {k \in (DOMAIN nft.rows) \cup (DOMAIN RowsAtBlockStart) :
        RollbackDataOf(nft.rows, k) # RollbackDataOf(RowsAtBlockStart, k)}

\* C17: the undo cache holds, for every key touched in the block in
\* progress, the entry made when it was first touched: DELETE_KEY if the row
\* did not exist before the block, PERSIST_KEY with the value from before
\* the block otherwise, whatever later operations of the block did to the
\* row; writeBlockCache(height) makes the cache the durable undo entry of
\* the height and empties it; the entries a rollback has played back are
\* gone from the undo log.
C17_UndoCacheKeepsFirstTouch ==
    /\ TouchedKeys \subseteq DOMAIN nft.blockData
    /\ \A k \in DOMAIN nft.blockData :
           nft.blockData[k] = RollbackDataOf(RowsAtBlockStart, k)
    /\ nftLast.op = "write" =>
           /\ nft.blockData = EmptyDb
           /\ nft.undo = Write(nftLast.before.undo, nftLast.height,
                               nftLast.before.blockData)
    /\ nftLast.op = "rollback" =>
           nft.undo = WriteBatch(nftLast.before.undo,
                                 {h \in DOMAIN nftLast.before.undo :
                                      h > nftLast.height})

\* a complete range finalized in an earlier block went to another owner: its
\* row was deleted and written again, and the cache still holds the owner
\* from before the block
C17_Witness ==
    /\ nftLast.op = "move"
    /\ nftLast.ok
    /\ nftLast.from # nftLast.to
    /\ nftLast.range = <<nftLast.start, nftLast.end>>
    /\ RangeKey(RangeIndex, nftLast.propertyId, nftLast.start, nftLast.end)
           \in DOMAIN nft.blockData
    /\ nft.blockData[RangeKey(RangeIndex, nftLast.propertyId, nftLast.start,
                              nftLast.end)]
           = [type |-> PERSIST_KEY, data |-> nftLast.from]

(***************************************************************************)
(* Claims about the sub-records.                                           *)
(***************************************************************************)
\* purchase numbers a caller may ask for: those in use, 0, one too many, -1
PurchaseNumbers == -1..(MaxOps + 1)

\* C18: after k successive recordPaymentTX calls for a txid that had no
\* payment sub-record, whatever block and validity they pass, its payment
\* sub-records carry the numbers 1..k, one row each; getNumberOfSubRecords
\* returns k; getPurchaseDetails(txid, n) returns true with vout, buyer,
\* seller, property and amount of the n-th call for 1 <= n <= k and false
\* for every other n.
C18_PaymentsNumberedInOrder ==
    \A txid \in Txids :
        /\ {k[3] : k \in PartialKey(db, "p", txid)} = 1..Len(calls.payments[txid])
        /\ Cardinality(PartialKey(db, "p", txid)) = Len(calls.payments[txid])
        /\ Len(calls.payments[txid]) > 0 =>
               getNumberOfSubRecords(db, txid) = Len(calls.payments[txid])
        /\ \A n \in PurchaseNumbers :
               getPurchaseDetails(db, txid, n) =
                   IF 1 <= n /\ n <= Len(calls.payments[txid])
                   THEN PurchaseDetails(TRUE, calls.payments[txid][n])
                   ELSE PurchaseDetails(FALSE, <<>>)

\* three payments of one transaction, recorded with different blocks and
\* validity and not all with the same details
C18_Witness ==
    \E txid \in Txids :
        /\ Len(calls.payments[txid]) = 3
        /\ calls.payments[txid][1] # calls.payments[txid][2]
        /\ \E k \in PartialKey(db, "p", txid), o \in PartialKey(db, "p", txid) :
               k[4] # o[4] /\ k[5] # o[5]

\* the last call was recordSendAllSubRecord
SendAllRecorded == calls.last.op = "sendall"

\* C19: recordSendAllSubRecord writes its sub-record under the number after
\* the highest send-all number of the txid, 1 if it has none, so the
\* send-all sub-records of a txid are numbered 1..k without gap and none is
\* overwritten.
C19_SendAllAppendsNext ==
    /\ \A txid \in Txids :
           {k[3] : k \in PartialKey(db, "s", txid)}
               = 1..Cardinality(PartialKey(db, "s", txid))
    /\ SendAllRecorded =>
           /\ calls.last.num = FirstSeq(calls.last.pre, "s", calls.last.txid) + 1
           /\ CSendAllTxKey(calls.last.txid, calls.last.num)
                  \notin DOMAIN calls.last.pre

\* C19, amended: recordSendAllSubRecord writes its sub-record under the
\* number its caller passes, in place of the sub-record of that number if
\* the txid has one, writes the block-index row, and leaves every other row
\* as it was.
C19_SendAllWritesGivenNumber ==
    SendAllRecorded =>
        /\ DOMAIN db = (DOMAIN calls.last.pre)
                           \cup {CSendAllTxKey(calls.last.txid, calls.last.num),
                                 CBlockTxKey(calls.last.block, calls.last.txid)}
        /\ db[CSendAllTxKey(calls.last.txid, calls.last.num)] = calls.last.value
        /\ db[CBlockTxKey(calls.last.block, calls.last.txid)] = ""
        /\ \A k \in DOMAIN calls.last.pre :
               k \notin {CSendAllTxKey(calls.last.txid, calls.last.num),
                         CBlockTxKey(calls.last.block, calls.last.txid)}
                   => db[k] = calls.last.pre[k]

\* a send-all sub-record took the place of one with other details
C19_Witness ==
    /\ SendAllRecorded
    /\ CSendAllTxKey(calls.last.txid, calls.last.num) \in DOMAIN calls.last.pre
    /\ calls.last.pre[CSendAllTxKey(calls.last.txid, calls.last.num)]
           # calls.last.value

\* C20: after recordMetaDExCancelTX(txid, cancelledTxid, ...),
\* findMetaDExCancel(cancelledTxid) returns txid, the canceller recorded last
\* for that target, and findMetaDExCancel of a transaction id never recorded
\* as cancelled returns the null id.
C20_FindsLastCanceller ==
    /\ \A t \in Txids : findMetaDExCancel(db, t) = calls.cancellers[t]
    /\ calls.last.op = "cancel" =>
           findMetaDExCancel(db, calls.last.num) = calls.last.txid

\* a transaction cancelled before was cancelled again by another
\* transaction, while some transaction id was never cancelled
C20_Witness ==
    /\ calls.last.op = "cancel"
    /\ findMetaDExCancel(calls.last.pre, calls.last.num)
           \notin {NullTxid, calls.last.txid}
    /\ \E t \in Txids : calls.cancellers[t] = NullTxid

\* what the caller's output variables hold before a lookup
Untouched == "untouched"

\* C21: if the n-th recordMetaDExCancelTX call for a txid passed property p
\* and amount v, whatever block and validity it passed,
\* getMetaDExCancelDetails(txid, n) returns true and outputs p and v; for an
\* n without cancel sub-record it returns false and leaves the outputs as
\* they were.
C21_CancelDetailsFound ==
    \A txid \in Txids, n \in PurchaseNumbers :
        IF 1 <= n /\ n <= Len(calls.cancels[txid])
        THEN /\ getMetaDExCancelDetails(db, txid, n, Untouched, Untouched).ok
             /\ getMetaDExCancelDetails(db, txid, n, Untouched, Untouched).propertyId
                    = calls.cancels[txid][n][1]
             /\ getMetaDExCancelDetails(db, txid, n, Untouched, Untouched).amount
                    = calls.cancels[txid][n][2]
        ELSE /\ ~getMetaDExCancelDetails(db, txid, n, Untouched, Untouched).ok
             /\ getMetaDExCancelDetails(db, txid, n, Untouched, Untouched).propertyId
                    = Untouched
             /\ getMetaDExCancelDetails(db, txid, n, Untouched, Untouched).amount
                    = Untouched

(***************************************************************************)
(* Claims about the lookups of the transaction index.                      *)
(***************************************************************************)
\* the heights a caller asks for: those recorded, one below, one above
QueryHeights == 0..3

\* the txids with a block-index row at a height from first to last
TxsRecordedIn(first, last) ==
    {k[3] : k \in {b \in SchemaKeys(db, "b") : first <= b[2] /\ b[2] <= last}}

\* C22: GetOmniTxsInBlockRange(first, last, ret) called with an empty ret
\* fills it with exactly the txids that have a block-index row at a height h
\* with first <= h <= last, none from above last or below first, and
\* returns their number.
C22_BlockRangeExact ==
    \A first \in QueryHeights, last \in QueryHeights :
        GetOmniTxsInBlockRange(db, first, last, {}) = TxsRecordedIn(first, last)

\* transactions are recorded at two heights, each holding one the other
\* does not: a range of one height has to leave some out
C22_Witness ==
    /\ TxsRecordedIn(1, 1) \ TxsRecordedIn(2, 2) # {}
    /\ TxsRecordedIn(2, 2) \ TxsRecordedIn(1, 1) # {}
    /\ GetOmniTxsInBlockRange(db, 1, 1, {}) # GetOmniTxsInBlockRange(db, 0, 3, {})


\* the highest number of a payment sub-record of the txid
HighestPayment(txid) ==
    CHOOSE n \in {k[3] : k \in PartialKey(db, "p", txid)} :
        \A k \in PartialKey(db, "p", txid) : k[3] <= n

\* C23: getValidMPTX(txid) returns the validity flag of a primary record of
\* txid and outputs its block, type and value when there is one; without
\* primary record but with payment sub-records it returns the validity flag
\* and outputs the block of a payment sub-record of the highest number, and
\* type 0; with neither it returns false and leaves the outputs as they were.
C23_DualPathLookup ==
    \A txid \in Txids :
        IF PartialKey(db, "t", txid) # {}
        THEN \E k \in PartialKey(db, "t", txid) :
                getValidMPTX(db, txid, Untouched, Untouched, Untouched) =
                    MPTX(k[4] > 0, k[3], k[5], db[k])
        ELSE IF PartialKey(db, "p", txid) # {}
        THEN \E k \in PartialKey(db, "p", txid) :
                /\ k[3] = HighestPayment(txid)
                /\ getValidMPTX(db, txid, Untouched, Untouched, Untouched).validity
                       = (k[5] > 0)
                /\ getValidMPTX(db, txid, Untouched, Untouched, Untouched).block
                       = k[4]
                /\ getValidMPTX(db, txid, Untouched, Untouched, Untouched).type = 0
        ELSE getValidMPTX(db, txid, Untouched, Untouched, Untouched) =
                 MPTX(FALSE, Untouched, Untouched, Untouched)

\* one txid has a primary record and a payment sub-record of another block,
\* one has payment sub-records only, one has no row
C23_Witness ==
    /\ \E txid \in Txids :
          /\ PartialKey(db, "t", txid) # {}
          /\ \E k \in PartialKey(db, "p", txid) :
                k[4] # getValidMPTX(db, txid, Untouched, Untouched, Untouched).block
    /\ \E txid \in Txids :
          /\ PartialKey(db, "t", txid) = {}
          /\ PartialKey(db, "p", txid) # {}
    /\ \E txid \in Txids : PartialKey(db, "t", txid) \cup PartialKey(db, "p", txid) = {}


(***************************************************************************)
(* Claims about the primary records.                                       *)
(***************************************************************************)
\* C24: after any sequence of recordTX calls a txid has at most one primary
\* record, and getValidMPTX(txid) returns the validity, block, type and
\* value of the most recent recordTX call for the txid.
C24_PrimaryKeyedByTxid ==
    \A txid \in Txids :
        calls.primary[txid] # <<>> =>
            /\ Cardinality(PartialKey(db, "t", txid)) <= 1
            /\ getValidMPTX(db, txid, Untouched, Untouched, Untouched) =
                   MPTX(calls.primary[txid][1] > 0, calls.primary[txid][2],
                        calls.primary[txid][3], calls.primary[txid][4])

\* C25: a recordTX call with the txid, validity, block, type and value of
\* the call just before it leaves the rows as that call left them.
C25_DuplicateRecordKeepsRows ==
    (calls.last.op = "tx" /\ calls.last.num > 1) => db = calls.last.pre

\* the same recordTX call has been made twice in a row, after another
\* record of the txid
C25_Witness ==
    /\ calls.last.op = "tx"
    /\ calls.last.num = 2
    /\ Cardinality(PartialKey(db, "t", calls.last.txid)) = 2
    /\ CBlockTxKey(calls.last.block, calls.last.txid) \in DOMAIN db


(***************************************************************************)
(* Claims about the checkpoint policy.                                     *)
(***************************************************************************)
\* the multiples of n among the heights asked for
MultiplesOf(n) == {m * n : m \in ProbedHeights} \cap ProbedHeights

\* C26: IsPersistenceEnabled(h) is true exactly when h is above the
\* configured minimum height and a multiple of the interval, which is the
\* one of the initial block download while the node is in it and the other
\* one otherwise; it is false at the minimum height and at every height
\* that is no multiple of the interval.
C26_DueAtMultiplesAboveMinimum ==
    probe.op = "IsPersistenceEnabled" =>
        /\ probe.result <=>
               /\ probe.blockHeight > probe.nMinHeight
               /\ probe.blockHeight \in
                      MultiplesOf(IF probe.ibd THEN STORE_EVERY_N_BLOCK_IDB
                                  ELSE STORE_EVERY_N_BLOCK)
        /\ probe.blockHeight = probe.nMinHeight => ~probe.result

\* a height above the minimum at which a checkpoint is due during the
\* initial block download only
C26_Witness ==
    /\ probe.op = "IsPersistenceEnabled"
    /\ probe.result
    /\ probe.ibd
    /\ probe.nMinHeight > 0
    /\ ~IsPersistenceEnabled(probe.blockHeight, probe.nMinHeight, FALSE)


\* C27: when a state file cannot be opened during PersistInMemoryState, the
\* call reports a failure (a result other than 0) and the watermark stays
\* where it was.
C27_FailureSurfaces ==
    probe.op = "PersistInMemoryState" =>
        /\ probe.result # 0
        /\ watermark = probe.watermark


(***************************************************************************)
(* Claims about the rows of one recording.                                 *)
(***************************************************************************)
\* the rows of the records and sub-records of a txid
RecordRows(txid) ==
    PartialKey(db, "t", txid) \cup PartialKey(db, "p", txid)
        \cup PartialKey(db, "c", txid) \cup PartialKey(db, "s", txid)

\* C28: whatever happens inside a record* call, stops of the node included,
\* the store never holds part of the rows of a recording: every
\* block-index row has a record or sub-record row of its txid, every record
\* or sub-record row has a block-index row of its txid, and every reverse
\* cancel link names a txid with a cancel sub-record.
C28_RecordingsWhole ==
    /\ \A b \in SchemaKeys(db, "b") : RecordRows(b[3]) # {}
    /\ \A txid \in Txids :
          RecordRows(txid) # {} => \E b \in SchemaKeys(db, "b") : b[3] = txid
    /\ \A e \in SchemaKeys(db, "e") : PartialKey(db, "c", db[e]) # {}


(***************************************************************************)
(* Claims about the bytes of the keys.                                     *)
(***************************************************************************)
\* the declared order of two keys of one schema: block-index keys by
\* descending block, then txid; payment sub-records by txid, then by
\* descending number, then block, then valid
DeclaredBefore(a, b) ==
    IF a[1] = "b"
    THEN \/ a[2] > b[2]
         \/ a[2] = b[2] /\ a[3] < b[3]
    ELSE \/ a[2] < b[2]
         \/ a[2] = b[2] /\ a[3] > b[3]
         \/ a[2] = b[2] /\ a[3] = b[3] /\ a[4] < b[4]
         \/ a[2] = b[2] /\ a[3] = b[3] /\ a[4] = b[4] /\ a[5] < b[5]

\* C29: the bytes of two keys of one schema are equal exactly when the keys
\* are, and their byte order is the declared order: block-index keys come
\* by descending block, sub-record keys of one txid by descending number.
C29_ByteOrderIsDeclaredOrder ==
    probe.op = "EncodeKey" =>
        /\ (probe.bytesA = probe.bytesB) <=> (probe.a = probe.b)
        /\ BytesBefore(probe.bytesA, probe.bytesB, 1) <=> DeclaredBefore(probe.a, probe.b)

\* two payment sub-records of one txid whose numbers differ in more than
\* the last byte: the higher number comes first
C29_Witness ==
    /\ probe.op = "EncodeKey"
    /\ probe.a[1] = "p"
    /\ probe.a[2] = probe.b[2]
    /\ probe.a[3] = 256 /\ probe.b[3] = 2
    /\ BytesBefore(probe.bytesA, probe.bytesB, 1)


\* the schemas whose rows are looked up by a partial key of a txid
TxidSchemas == {"t", "p", "c", "s"}

\* C30: an iterator made with the partial key of schema T and a txid meets
\* exactly the rows of schema T of that txid, whatever rows of other
\* txids and other schemas the store holds.
C30_PrefixIsolation ==
    \A prefix \in TxidSchemas, txid \in Txids :
        VisitedRows(db, prefix, txid) =
            {EncodeKey(k) : k \in PartialKey(db, prefix, txid)}

\* the store holds rows of two schemas of one txid and rows of the same
\* schema of two txids
C30_Witness ==
    \E txid \in Txids, other \in Txids :
        /\ other # txid
        /\ PartialKey(db, "p", txid) # {}
        /\ PartialKey(db, "p", other) # {}
        /\ PartialKey(db, "t", txid) # {}
        /\ VisitedRows(db, "p", txid) # {}


(***************************************************************************)
(* Claims about the block-index rows after rollbacks.                      *)
(***************************************************************************)
\* the primary records, payment sub-records and cancel sub-records: the
\* rows whose key carries the block
RowsWithBlock ==
    SchemaKeys(db, "t") \cup SchemaKeys(db, "p") \cup SchemaKeys(db, "c")

\* the block a row of RowsWithBlock was recorded at
BlockOfRow(k) == IF k[1] = "t" THEN k[3] ELSE k[4]

\* C31: after any sequence of recordings and of rollbacks done as
\* deleteTransactions(GetOmniTxsInBlockRange(b, top), b), every primary
\* record, payment sub-record and cancel sub-record of block h has the
\* block-index row {h, txid} of its txid.
C31_RecordsHaveBlockRow ==
    \A k \in RowsWithBlock : CBlockTxKey(BlockOfRow(k), k[2]) \in DOMAIN db


(***************************************************************************)
(* Claims about the tables in memory after a load.                         *)
(***************************************************************************)
\* a file of the checkpoint was damaged and a load has been made since;
\* between the checkpoint and that load nothing changes the tables, so
\* track.mem is what they held when the load was called
LoadedAfterDamage ==
    /\ track.since \in {"byte", "truncated", "dropline", "removed"}
    /\ ret # NoRet

\* C32: whenever LoadMostRelevantInMemoryState returns -1, every table in
\* memory holds what it held before the call.
C32_FailedLoadKeepsTables ==
    (LoadedAfterDamage /\ ret.kind = "fail") => mem = track.mem


(***************************************************************************)
(* Claims about what deleteTransactions leaves alone.                      *)
(***************************************************************************)
\* the records and sub-records of a txid in a store, with their values
RowsOfTx(d, txid) ==
    {<<k, d[k]>> : k \in UNION {PartialKey(d, prefix, txid) : prefix \in SubSchemas}}

\* C33: deleteTransactions(txs, block) leaves every primary record, payment
\* sub-record, cancel sub-record and send-all sub-record of a txid outside
\* txs as it was, also when the row was recorded at a height >= block.
C33_OtherTxsUntouched ==
    Deleted =>
        \A txid \in Txids \ lastDelete.txs :
            RowsOfTx(db, txid) = RowsOfTx(lastDelete.pre, txid)

\* a transaction was deleted, and a record of another one, recorded at a
\* height the call removed the block-index rows of, is still there
C33_Witness ==
    /\ Deleted
    /\ \E txid \in lastDelete.txs : RowsOfTx(lastDelete.pre, txid) # {}
    /\ \E txid \in Txids \ lastDelete.txs :
          \E k \in PartialKey(db, "t", txid) \cup PartialKey(db, "p", txid) :
              /\ BlockOfRow(k) >= lastDelete.block
              /\ CBlockTxKey(BlockOfRow(k), txid) \in DOMAIN lastDelete.pre
              /\ CBlockTxKey(BlockOfRow(k), txid) \notin DOMAIN db


\* C34: after deleteTransactions(txs, block) GetNonFungibleGrant(txid)
\* returns (0, 0) for every txid of txs, also for one that had a grant
\* recorded before the call.
C34_GrantRemovedWithTx ==
    Deleted => \A txid \in lastDelete.txs : GetNonFungibleGrant(db, txid) = <<0, 0>>


(***************************************************************************)
(* Claims about the numbers of sub-records.                                *)
(***************************************************************************)
\* C35: getNumberOfMetaDExCancels(txid) returns the number of cancel
\* sub-records recorded for txid, the highest number recordMetaDExCancelTX
\* gave one of them, and 0 for a txid without cancel sub-record.
C35_CountsCancels ==
    \A txid \in Txids :
        /\ getNumberOfMetaDExCancels(db, txid) = Len(calls.cancels[txid])
        /\ getNumberOfMetaDExCancels(db, txid) = FirstSeq(db, "c", txid)


(***************************************************************************)
(* Claims about a restore over tables that are not empty.                  *)
(***************************************************************************)
\* the tables RestoreInMemoryState clears before it reads the file
ClearedTables ==
    {FILETYPE_BALANCES, FILETYPE_OFFERS, FILETYPE_ACCEPTS, FILETYPE_CROWDSALES,
     FILETYPE_MDEXORDERS}

\* the rows the lines of the watermark's file of table what encode: what the
\* table's line parser makes of them, line by line, from the empty table
RowsEncoded(what) ==
    ReadLines(what, FALSE, Lines(files[FileName(what, watermark.hash)].bytes),
              [table |-> NoTable(what), stream |-> <<>>, fileHash |-> <<>>,
               res |-> "ok"]).table

\* the load has just returned a height, and the tables before it are known
LoadedOverMemory ==
    /\ Loaded /\ ret.kind = "height"
    /\ probe.op = "LoadMostRelevantInMemoryState"

\* the row keys of a table
RowKeys(table, what) == IF what = FILETYPE_MDEXORDERS THEN table ELSE DOMAIN table

\* C36: a successful restore replaces and never merges: afterwards each of
\* the balances, offers, accepts, crowdsales and MetaDEx tables holds exactly
\* the rows encoded in its file, and a row that was in memory before the call
\* and is not in the file is gone.
C36_RestoreReplaces ==
    LoadedOverMemory =>
        \A what \in ClearedTables :
            /\ TableOf(mem, what) = RowsEncoded(what)
            /\ \A row \in RowKeys(TableOf(probe.mem, what), what) :
                   row \notin RowKeys(RowsEncoded(what), what)
                       => row \notin RowKeys(TableOf(mem, what), what)

\* a load over a table that held a row the file does not have, while
\* the file has rows of its own
C36_Witness ==
    /\ LoadedOverMemory
    /\ \E what \in ClearedTables :
           RowKeys(TableOf(probe.mem, what), what)
               \ RowKeys(RowsEncoded(what), what) # {}
    /\ \E what \in ClearedTables : RowsEncoded(what) # NoTable(what)


\* the numbers in the keys of the sub-records of txid under one prefix
NumbersOf(prefix, txid) == {k[3] : k \in {r \in SchemaKeys(db, prefix) : r[2] = txid}}

\* n is the highest of the numbers
HighestOf(n, numbers) == n \in numbers /\ \A o \in numbers : o <= n

\* C37: getNumberOfSubRecords(txid) returns the highest payment number when
\* txid has a payment sub-record, otherwise the highest send-all number when
\* it has a send-all sub-record, otherwise 0; with both kinds the send-all
\* sub-records are not counted.
C37_PaymentsBeforeSendAll ==
    \A txid \in Txids :
        IF NumbersOf("p", txid) # {}
        THEN HighestOf(getNumberOfSubRecords(db, txid), NumbersOf("p", txid))
        ELSE IF NumbersOf("s", txid) # {}
        THEN HighestOf(getNumberOfSubRecords(db, txid), NumbersOf("s", txid))
        ELSE getNumberOfSubRecords(db, txid) = 0

\* one txid has sub-records of both kinds with a send-all number above its
\* payment numbers, one has more than one send-all sub-record only, one has
\* none
C37_Witness ==
    /\ \E txid \in Txids :
          /\ NumbersOf("p", txid) # {}
          /\ \E n \in NumbersOf("s", txid) : \A o \in NumbersOf("p", txid) : o < n
    /\ \E txid \in Txids :
          /\ NumbersOf("p", txid) = {}
          /\ NumbersOf("s", txid) # {}
    /\ \E txid \in Txids : NumbersOf("p", txid) \cup NumbersOf("s", txid) = {}

====
